---- MODULE Spec2Model ----
(***************************************************************************)
(* State-machine model of lingpy's LexStat class                           *)
(* (src/lingpy/compare/lexstat.py): construction of the segment index,     *)
(* the base scorer and the pair index, get_subset, get_scorer, cluster,    *)
(* align_pairs, get_distances and get_random_distances.                    *)
(*                                                                         *)
(* Scores are fixed-point numbers in thousandths.  Segment symbols are     *)
(* modelled as Python strings, i.e. sequences of one-character strings,    *)
(* so that the string operations of the source (index, slicing, in) are    *)
(* computed as the source computes them.                                   *)
(***************************************************************************)
EXTENDS Integers, Sequences, FiniteSets, TLC

VARIABLES
    data,        \* the word list handed to the constructor
    duplicates,  \* the "duplicates" column
    chars,       \* self.chars
    bscorer,     \* self.bscorer
    pairs,       \* self.pairs
    transform,   \* self._transform (None while the attribute does not exist)
    subsets,     \* self.subsets
    cscorer,     \* self.cscorer (None while the attribute does not exist)
    params,      \* self.params
    stamp,       \* self._stamp, as the list of the lines appended to it
    corrdist,    \* self._corrdist
    randist,     \* self._randist
    included,    \* self._included
    cols,        \* the cognate-id columns of the word list
    gs,          \* the activation record of a running get_scorer call
    installed,   \* history: the inputs of the run that installed cscorer
    last         \* the last call and its arguments / outcome

idxVars == <<data, duplicates, chars, bscorer, pairs, transform>>
scVars == <<cscorer, params, stamp, corrdist, randist, included, cols, gs>>
vars == <<data, duplicates, chars, bscorer, pairs, transform, subsets, cscorer, params,
          stamp, corrdist, randist, included, cols, gs, installed, last>>

\* an optional value: None or Some(x)
None == <<>>
Some(x) == <<x>>
Val(o) == o[1]

(***************************************************************************)
(* Bounds of the model.                                                    *)
(***************************************************************************)
NTaxa == 2
NConcepts == 2
NForms == 3
NWords == 3

Taxa == 1..NTaxa
Concepts == 1..NConcepts
Forms == 1..NForms
Ids == 1..NWords
\* the keys of a word list
IdsOf(d) == DOMAIN d.words

(***************************************************************************)
(* Generic sequence helpers.                                               *)
(***************************************************************************)
Range(s) == {s[k] : k \in 1..Len(s)}

RECURSIVE SetToSeq(_)
SetToSeq(S) ==
    IF S = {} THEN <<>>
    ELSE LET x == CHOOSE y \in S : TRUE IN <<x>> \o SetToSeq(S \ {x})

\* the ascending list of a set of integers
RECURSIVE SortedSeq(_)
SortedSeq(S) ==
    IF S = {} THEN <<>>
    ELSE LET x == CHOOSE y \in S : \A z \in S : y <= z
         IN <<x>> \o SortedSeq(S \ {x})

\* f[1] \o f[2] \o ... \o f[n]
RECURSIVE ConcatTo(_, _)
ConcatTo(f, n) == IF n = 0 THEN <<>> ELSE ConcatTo(f, n - 1) \o f[n]

\* the list [f[1], ..., f[n]], every element computed once
RECURSIVE ListOf(_, _)
ListOf(f, n) == IF n = 0 THEN <<>> ELSE Append(ListOf(f, n - 1), f[n])

\* [(a, b) for a in sA for b in sB]
CrossSeq(sA, sB) ==
    ListOf([k \in 1..(Len(sA) * Len(sB)) |->
                <<sA[((k - 1) \div Len(sB)) + 1], sB[((k - 1) % Len(sB)) + 1]>>],
           Len(sA) * Len(sB))

\* s is obtained from t by deleting elements (same relative order)
RECURSIVE IsSubSeq(_, _)
IsSubSeq(s, t) ==
    IF s = <<>> THEN TRUE
    ELSE IF t = <<>> THEN FALSE
    ELSE IF Head(s) = Head(t) THEN IsSubSeq(Tail(s), Tail(t))
    ELSE IsSubSeq(s, Tail(t))

(***************************************************************************)
(* Python string operations on sequences of characters.                    *)
(***************************************************************************)
Digit(n) == <<"0", "1", "2", "3", "4", "5", "6", "7", "8", "9">>[n + 1]

\* str(n) for a natural number n
RECURSIVE Str(_)
Str(n) == IF n < 10 THEN <<Digit(n)>> ELSE Str(n \div 10) \o <<Digit(n % 10)>>

\* s.index(ch), 0-based
PyIndex(s, ch) == (CHOOSE k \in 1..Len(s) : s[k] = ch /\ \A m \in 1..(k - 1) : s[m] # ch) - 1

\* s[k] with a 0-based k
PyAt(s, k) == s[k + 1]

\* ch in s
PyIn(ch, s) == \E k \in 1..Len(s) : s[k] = ch

(***************************************************************************)
(* The input: words with taxon, concept and form.  A form stands for the   *)
(* ipa string; FormTable gives its sound classes and raw prosodic string.  *)
(***************************************************************************)
FormTable ==
    << << [cls |-> "P", pro |-> "A"], [cls |-> "A", pro |-> "Z"] >>,
       << [cls |-> "T", pro |-> "A"], [cls |-> "A", pro |-> "Z"] >>,
       << [cls |-> "T", pro |-> "N"] >>,
       << [cls |-> "P", pro |-> "A"], [cls |-> "A", pro |-> "Y"], [cls |-> "T", pro |-> "N"] >> >>

WordRec == [taxon : Taxa, concept : Concepts, form : Forms]

\* offsets of an input-carried langid column; 0 is the default str(i+1)
LangBases == {0, 9}

\* every taxon has a word (self.taxa lists the taxa that occur)
WellFormed(d) == \A t \in Taxa : \E i \in IdsOf(d) : d.words[i].taxon = t

AllData == {d \in [words : [Ids -> WordRec], langbase : LangBases] : WellFormed(d)}

\* default context transform (rcParams['lexstat_transform'])
Transform(p) ==
    CASE p \in {"A", "B", "C"} -> "C"
      [] p \in {"L", "M", "N"} -> "c"
      [] p \in {"X", "Y", "Z"} -> "V"
      [] p = "T" -> "T"
      [] p = "_" -> "_"

\* the sound-class model: a symmetric substitution table
Code(c) == CASE c = "P" -> 1 [] c = "T" -> 2 [] c = "A" -> 3 [] c = "X" -> 5
Model(a, b) == IF a = b THEN 1000 * (10 + Code(a)) ELSE 0 - 1000 * Code(a) * Code(b)

\* Wordlist accessors
TaxonOf(d, i) == d.words[i].taxon
ConceptOf(d, i) == d.words[i].concept
IpaOf(d, i) == d.words[i].form
LangIdOf(d, i) == d.langbase + d.words[i].taxon

\* get_dict(col=taxon)[c]
GetDict(d, t, c) == SortedSeq({i \in IdsOf(d) : TaxonOf(d, i) = t /\ ConceptOf(d, i) = c})
\* the concepts of get_dict(col=taxon), in iteration order
DictKeys(d, t) == SortedSeq({c \in Concepts : GetDict(d, t, c) # <<>>})
\* get_list(col=taxon, flat=True)
GetListCol(d, t) == ConcatTo([c \in Concepts |-> GetDict(d, t, c)], NConcepts)
\* get_list(row=c, flat=True)
GetListRow(d, c) == ConcatTo([t \in Taxa |-> GetDict(d, t, c)], NTaxa)
\* sorted(self.rows)
Rows(d) == SortedSeq({c \in Concepts : \E i \in IdsOf(d) : ConceptOf(d, i) = c})

\* the "numbers" column: "{langid}.{class}.{context}"
Symbol(lid, cls, ctx) == Str(lid) \o <<".", cls, ".", ctx>>
Numbers(d, i) ==
    ListOf([k \in 1..Len(FormTable[IpaOf(d, i)]) |->
                Symbol(LangIdOf(d, i), FormTable[IpaOf(d, i)][k].cls,
                       Transform(FormTable[IpaOf(d, i)][k].pro))],
           Len(FormTable[IpaOf(d, i)]))

\* str(i+1)+'.X.-' for the taxon at position t of self.taxa
GapSymbol(t) == Str(t) \o <<".", "X", ".", "-">>

(***************************************************************************)
(* __init__: duplicates, segment index, base scorer, pair index.           *)
(***************************************************************************)
BuildDuplicates(d) ==
    [i \in IdsOf(d) |->
        LET L == GetListCol(d, TaxonOf(d, i))
            k == CHOOSE n \in 1..Len(L) : L[n] = i
        IN IF \E m \in 1..(k - 1) : IpaOf(d, L[m]) = IpaOf(d, i) THEN 1 ELSE 0]

\* self.freqs[taxon]: the symbols of the taxon's words (keys of the counter)
Freqs(d, t) == UNION {Range(Numbers(d, i)) : i \in {j \in IdsOf(d) : TaxonOf(d, j) = t}}

BuildChars(d) ==
    SetToSeq(UNION {Freqs(d, t) : t \in Taxa}) \o [t \in Taxa |-> GapSymbol(t)]

\* charA[charA.index('.')+1][0]
ClassOf(sym) == PyAt(sym, PyIndex(sym, ".") + 1)

\* faulty variant of BuildBMatrix: the cells below the diagonal are not written
BuildBMatrixUpper(chs) ==
    [i \in 1..Len(chs) |-> [j \in 1..Len(chs) |->
        IF i <= j THEN Model(ClassOf(chs[i]), ClassOf(chs[j])) ELSE 0]]

BuildBMatrix(chs) ==
    [i \in 1..Len(chs) |-> [j \in 1..Len(chs) |->
        IF i <= j THEN Model(ClassOf(chs[i]), ClassOf(chs[j]))
        ELSE Model(ClassOf(chs[j]), ClassOf(chs[i]))]]

\* misc.ScoreDict(chars, matrix)
ScoreDict(chs, m) == [chars |-> chs, matrix |-> m]
Chars2Int(sd, a) == CHOOSE k \in 1..Len(sd.chars) : sd.chars[k] = a
Lookup(sd, a, b) == sd.matrix[Chars2Int(sd, a)][Chars2Int(sd, b)]

\* faulty variant of BuildPairsFor: only the first word's flag is tested
BuildPairsForLeftFlag(d, dup, tA, tB) ==
    IF tA < tB
    THEN SelectSeq(
            ConcatTo([n \in 1..Len(DictKeys(d, tA)) |->
                        CrossSeq(GetDict(d, tA, DictKeys(d, tA)[n]),
                                 GetDict(d, tB, DictKeys(d, tA)[n]))],
                     Len(DictKeys(d, tA))),
            LAMBDA p : dup[p[1]] # 1)
    ELSE SelectSeq(
            [n \in 1..Len(GetListCol(d, tA)) |->
                <<GetListCol(d, tA)[n], GetListCol(d, tA)[n]>>],
            LAMBDA p : dup[p[1]] # 1)

BuildPairsFor(d, dup, tA, tB) ==
    IF tA < tB
    THEN SelectSeq(
            ConcatTo([n \in 1..Len(DictKeys(d, tA)) |->
                        CrossSeq(GetDict(d, tA, DictKeys(d, tA)[n]),
                                 GetDict(d, tB, DictKeys(d, tA)[n]))],
                     Len(DictKeys(d, tA))),
            LAMBDA p : dup[p[1]] # 1 /\ dup[p[2]] # 1)
    ELSE SelectSeq(
            [n \in 1..Len(GetListCol(d, tA)) |->
                <<GetListCol(d, tA)[n], GetListCol(d, tA)[n]>>],
            LAMBDA p : dup[p[1]] # 1)

TaxonPairs == {tp \in Taxa \X Taxa : tp[1] <= tp[2]}

BuildPairs(d, dup) == [tp \in TaxonPairs |-> BuildPairsFor(d, dup, tp[1], tp[2])]

(***************************************************************************)
(* get_subset                                                              *)
(***************************************************************************)
Refs == {"concept", "ipa"}
RefValues(ref) == IF ref = "concept" THEN Concepts ELSE Forms

\* self[idx, ref]
Entry(d, i, ref) == IF ref = "concept" THEN ConceptOf(d, i) ELSE IpaOf(d, i)
\* self[pair, ref]
PairEntry(d, p, ref) == <<Entry(d, p[1], ref), Entry(d, p[2], ref)>>

\* faulty variant of SubsetFor: the second word's entry is tested
SubsetForSecond(d, prs, sublist, ref) ==
    SelectSeq(prs, LAMBDA p : PairEntry(d, p, ref)[2] \in sublist)

SubsetFor(d, prs, sublist, ref) ==
    SelectSeq(prs, LAMBDA p : PairEntry(d, p, ref)[1] \in sublist)

GetSubset(sublist, ref) ==
    /\ gs.pc = "idle"
    /\ subsets' = Some([tp \in TaxonPairs |-> SubsetFor(data, pairs[tp], sublist, ref)])
    /\ last' = [op |-> "get_subset", sublist |-> sublist, ref |-> ref]
    /\ UNCHANGED <<idxVars, scVars, installed>>

(***************************************************************************)
(* Numbers: counts are rationals [n, d]; scores are thousandths.           *)
(***************************************************************************)
RECURSIVE Gcd(_, _)
Gcd(a, b) == IF b = 0 THEN a ELSE Gcd(b, a % b)

Rat(n, d) == IF n = 0 THEN [n |-> 0, d |-> 1] ELSE [n |-> n \div Gcd(n, d), d |-> d \div Gcd(n, d)]
RAdd(x, y) == Rat(x.n * y.d + y.n * x.d, x.d * y.d)

RECURSIVE RSum(_, _)
\* f[1] + ... + f[n]
RSum(f, n) == IF n = 0 THEN Rat(0, 1) ELSE RAdd(RSum(f, n - 1), f[n])

RECURSIVE Sum(_, _)
Sum(f, n) == IF n = 0 THEN 0 ELSE Sum(f, n - 1) + f[n]

RECURSIVE SumOver(_, _)
\* the sum of f[x] over the x of S
SumOver(f, S) ==
    IF S = {} THEN 0
    ELSE LET x == CHOOSE y \in S : TRUE IN f[x] + SumOver(f, S \ {x})

Abs(x) == IF x < 0 THEN 0 - x ELSE x

\* 1000 * log2(n), rounded, for the integers of the model
Log2Table ==
    << 0, 1000, 1585, 2000, 2322, 2585, 2807, 3000, 3170, 3322, 3459, 3585,
       3700, 3807, 3907, 4000, 4087, 4170, 4248, 4322, 4392, 4459, 4524, 4585,
       4644, 4700, 4755, 4807, 4858, 4907, 4954, 5000, 5044, 5087, 5129, 5170,
       5209, 5248, 5285, 5322, 5358, 5392, 5426, 5459, 5492, 5524, 5555, 5585,
       5615, 5644, 5672, 5700, 5728, 5755, 5781, 5807, 5833, 5858, 5883, 5907,
       5931, 5954, 5977, 6000 >>

RECURSIVE Log2(_)
Log2(n) == IF n <= Len(Log2Table) THEN Log2Table[n] ELSE 1000 + Log2(n \div 2)

\* '{0:.2f}'.format(x) of a number in thousandths: hundredths, rounded
Fmt2(x) == (x + 5) \div 10

(***************************************************************************)
(* get_scorer: keywords, parameter record and stamp line.                  *)
(***************************************************************************)
DefaultModes == << <<"global", 0 - 2, 500>>, <<"local", 0 - 1, 500>> >>

DefaultKw ==
    [method |-> "markov", ratio |-> <<3, 2>>, vscale |-> 500, runs |-> 2,
     modes |-> DefaultModes, factor |-> 300, restricted_chars |-> "T_",
     force |-> FALSE, preprocessing |-> TRUE, rands |-> 2, limit |-> 10,
     cluster_method |-> "upgma", gop |-> 0 - 2, preprocessing_threshold |-> 700,
     preprocessing_method |-> "sca", subset |-> FALSE]

\* the keyword sets of the get_scorer calls of the model
Configs ==
    { DefaultKw,
      [DefaultKw EXCEPT !.ratio = <<1, 1>>, !.preprocessing = FALSE, !.method = "shuffle"],
      [DefaultKw EXCEPT !.modes = <<>>, !.preprocessing = FALSE],
      [DefaultKw EXCEPT !.ratio = <<0, 0>>, !.preprocessing = FALSE],
      [DefaultKw EXCEPT !.runs = 5, !.preprocessing = FALSE],
      [DefaultKw EXCEPT !.runs = 5, !.preprocessing = FALSE, !.method = "shuffle"] }

Kws == {[k EXCEPT !.force = f] : k \in Configs, f \in BOOLEAN}

ModeString(modes) == [k \in 1..Len(modes) |-> <<modes[k][1], Abs(modes[k][2]), Fmt2(modes[k][3])>>]

ScorerParams(kw) ==
    [ratio |-> kw.ratio, vscale |-> kw.vscale, runs |-> kw.runs,
     threshold |-> kw.preprocessing_threshold, modestring |-> ModeString(kw.modes),
     factor |-> kw.factor, restricted_chars |-> kw.restricted_chars,
     method |-> kw.method,
     preprocessing |-> <<kw.preprocessing, kw.cluster_method, kw.gop>>]

ParString(p) ==
    <<"# Parameters: ", p.ratio[1], p.ratio[2], Fmt2(p.vscale), p.runs, Fmt2(p.threshold),
      p.modestring, Fmt2(p.factor), p.restricted_chars, p.method, p.preprocessing>>

\* hasattr(self, 'params')
HasParams(pr) == pr # None

(***************************************************************************)
(* The aligner behind calign.corrdist: position-wise alignment, padded     *)
(* with gaps in global mode; a pair is counted when its distance is below  *)
(* the threshold.                                                           *)
(***************************************************************************)
Gap == <<"-">>

Max(a, b) == IF a >= b THEN a ELSE b
Min(a, b) == IF a <= b THEN a ELSE b

AlignSeqs(sA, sB, mode) ==
    LET n == IF mode = "global" THEN Max(Len(sA), Len(sB)) ELSE Min(Len(sA), Len(sB))
    IN ListOf([k \in 1..n |->
                  << IF k <= Len(sA) THEN sA[k] ELSE Gap, IF k <= Len(sB) THEN sB[k] ELSE Gap >>],
              n)

\* self.bscorer[a, b] and self.rscorer[a, b] as seen by the aligner
BScore(a, b) == Lookup(bscorer, a, b)
RScore(a, b) == Model(PyAt(a, 0), PyAt(b, 0))
\* the scorer handed to the aligner
ScoreOf(scorer, a, b) ==
    IF scorer = "bscorer" THEN BScore(a, b)
    ELSE IF scorer = "cscorer" THEN Lookup(Val(cscorer), a, b)
    ELSE RScore(a, b)

AlignDist(sA, sB, scorer) ==
    (1000 * Cardinality({k \in 1..Max(Len(sA), Len(sB)) :
                \/ k > Min(Len(sA), Len(sB))
                \/ ScoreOf(scorer, sA[k], sB[k]) <= 0})) \div Max(Len(sA), Len(sB))

CalignCorrdist(threshold, numbers, mode, scorer) ==
    LET inc == {k \in 1..Len(numbers) : AlignDist(numbers[k][1], numbers[k][2], scorer) < threshold}
        occ == UNION {{<<k, p>> : p \in 1..Len(AlignSeqs(numbers[k][1], numbers[k][2], mode))} :
                        k \in inc}
        key(o) == AlignSeqs(numbers[o[1]][1], numbers[o[1]][2], mode)[o[2]]
        K == {key(o) : o \in occ}
    IN [corrs |-> [x \in K |-> Cardinality({o \in occ : key(o) = x})],
        included |-> Cardinality(inc)]

\* the language pairs in the order of combinations_with_replacement
PairSeq == SelectSeq(CrossSeq([t \in Taxa |-> t], [t \in Taxa |-> t]), LAMBDA tp : tp[1] <= tp[2])

(***************************************************************************)
(* _get_corrdist                                                           *)
(***************************************************************************)
\* the pairs handed to the aligner for one language pair
CorrPairs(kw, scaid, tp) ==
    LET ps == IF kw.subset THEN SelectSeq(pairs[tp], LAMBDA p : p \in Range(Val(subsets)[tp]))
              ELSE pairs[tp]
    IN IF kw.preprocessing THEN SelectSeq(ps, LAMBDA p : Val(scaid)[p[1]] = Val(scaid)[p[2]]) ELSE ps

CorrCall(kw, scaid, tp, m) ==
    LET ps == CorrPairs(kw, scaid, tp)
    IN CalignCorrdist(IF kw.preprocessing THEN 10000 ELSE kw.preprocessing_threshold,
                      ListOf([k \in 1..Len(ps) |->
                                <<Numbers(data, ps[k][1]), Numbers(data, ps[k][2])>>], Len(ps)),
                      kw.modes[m][1], "bscorer")

\* faulty variant of CorrKey: both gaps take the first language's symbol
CorrKeyFirstGap(tp, x) ==
    IF x[1] = Gap THEN <<GapSymbol(tp[1]), x[2]>>
    ELSE IF x[2] = Gap THEN <<x[1], GapSymbol(tp[1])>>
    ELSE x

\* "change representation of gaps"
CorrKey(tp, x) ==
    IF x[1] = Gap THEN <<GapSymbol(tp[1]), x[2]>>
    ELSE IF x[2] = Gap THEN <<x[1], GapSymbol(tp[2])>>
    ELSE x

GetCorrdistFor(kw, scaid, tp) ==
    LET nm == Len(kw.modes)
        res == ListOf([m \in 1..nm |-> CorrCall(kw, scaid, tp, m)], nm)
        K == UNION {{CorrKey(tp, x) : x \in DOMAIN res[m].corrs} : m \in 1..nm}
        part(m, y) == SumOver(res[m].corrs, {x \in DOMAIN res[m].corrs : CorrKey(tp, x) = y})
    IN [dist |-> [y \in K |-> RSum([m \in 1..nm |-> Rat(part(m, y), nm)], nm)],
        included |-> IF nm = 0 THEN None ELSE Some(res[nm].included)]

(***************************************************************************)
(* _get_randist                                                            *)
(***************************************************************************)
RandMethod(kw) == IF kw.method \in {"markov", "markov-chain", "mc"} THEN "markov" ELSE "shuffle"

\* [(i, j) for i in range(n) for j in range(n)], 0-based
Population(n) == CrossSeq([k \in 1..n |-> k - 1], [k \in 1..n |-> k - 1])

\* the outcomes of random.sample(population, runs) of the model
Seeds == {"lo", "hi"}
RandomSample(pop, runs, seed) ==
    IF seed = "lo" THEN SubSeq(pop, 1, runs) ELSE SubSeq(pop, Len(pop) - runs + 1, Len(pop))

\* the strings of the Markov generator, encoded '{class}.{context}'
RandomWords(kw, t) ==
    [x \in 1..kw.rands |->
        LET L == GetListCol(data, t)
            f == FormTable[IpaOf(data, L[((x - 1) % Len(L)) + 1])]
        IN ListOf([k \in 1..Len(f) |-> <<f[k].cls, ".", Transform(f[k].pro)>>], Len(f))]

MarkovKey(tp, x) ==
    LET a == IF x[1] = Gap THEN <<"X", ".", "-">> ELSE x[1]
        b == IF x[1] # Gap /\ x[2] = Gap THEN <<"X", ".", "-">> ELSE x[2]
    IN <<Str(tp[1]) \o <<".">> \o a, Str(tp[2]) \o <<".">> \o b>>

\* does the sampling of the random distribution raise ValueError?
RandistFails(kw) == RandMethod(kw) = "markov" /\ kw.runs > kw.rands * kw.rands

\* the sample of the shuffle approach: random.sample, or the whole
\* population when random.sample raises ValueError
ShuffleSample(kw, tp, seed) ==
    LET pop == Population(Len(pairs[tp]))
    IN IF kw.runs > Len(pop) THEN pop ELSE RandomSample(pop, kw.runs, seed)

RandCall(kw, tp, m, seed) ==
    IF RandMethod(kw) = "markov"
    THEN LET sample == RandomSample(Population(kw.rands), kw.runs, seed)
         IN CalignCorrdist(10000,
                ListOf([k \in 1..Len(sample) |->
                            <<RandomWords(kw, tp[1])[sample[k][1] + 1],
                              RandomWords(kw, tp[2])[sample[k][2] + 1]>>], Len(sample)),
                kw.modes[m][1], "rscorer")
    ELSE LET sample == ShuffleSample(kw, tp, seed)
         IN CalignCorrdist(10000,
                ListOf([k \in 1..Len(sample) |->
                            <<Numbers(data, pairs[tp][sample[k][1] + 1][1]),
                              Numbers(data, pairs[tp][sample[k][2] + 1][2])>>], Len(sample)),
                kw.modes[m][1], "bscorer")

RandKey(kw, tp, x) == IF RandMethod(kw) = "markov" THEN MarkovKey(tp, x) ELSE CorrKey(tp, x)

GetRandistFor(kw, inc, tp, seed) ==
    LET nm == Len(kw.modes)
        res == ListOf([m \in 1..nm |-> RandCall(kw, tp, m, seed)], nm)
        K == UNION {{RandKey(kw, tp, x) : x \in DOMAIN res[m].corrs} : m \in 1..nm}
        part(m, y) == SumOver(res[m].corrs, {x \in DOMAIN res[m].corrs : RandKey(kw, tp, x) = y})
    IN [y \in K |-> RSum([m \in 1..nm |->
                            Rat(part(m, y) * Val(inc[tp]), res[m].included * nm)], nm)]

(***************************************************************************)
(* get_scorer: synthesis of the matrix, one language pair at a time.       *)
(***************************************************************************)
RECURSIVE Dedupe(_, _)
\* the distinct elements of s in the order of their first occurrence
Dedupe(s, seen) ==
    IF s = <<>> THEN <<>>
    ELSE IF Head(s) \in seen THEN Dedupe(Tail(s), seen)
    ELSE <<Head(s)>> \o Dedupe(Tail(s), seen \cup {Head(s)})

\* list(self.freqs[taxon])
FreqSeq(d, t) ==
    Dedupe(ConcatTo([n \in 1..Len(GetListCol(d, t)) |-> Numbers(d, GetListCol(d, t)[n])],
                    Len(GetListCol(d, t))), {})

\* a dictionary lookup inside try/except: the value, or False
DictGet(dict, x) == IF x \in DOMAIN dict THEN Some(dict[x]) ELSE None

Truthy(c) == c # None /\ Val(c).n # 0

\* the gap-open value of the synthesis: the mean over the mode list
AverageGop(kw) == (1000 * Sum([m \in 1..Len(kw.modes) |-> kw.modes[m][2]], Len(kw.modes))) \div Len(kw.modes)

LogOdds(att, exp) ==
    IF Truthy(att) /\ Truthy(exp)
        THEN 2 * ((Log2(Val(att).n) - Log2(Val(att).d)) - (Log2(Val(exp).n) - Log2(Val(exp).d)))
    ELSE IF Truthy(att) THEN 2 * (Log2(Val(att).n) - Log2(Val(att).d)) + 16610
    ELSE IF Truthy(exp) THEN 0 - 5000
    ELSE 0 - 90000

\* faulty variant of CellScore: a count <= 1 is dropped for i = j as well
CellScoreDropsSameLanguage(kw, cd, rd, tp, a, b) ==
    LET exp == DictGet(rd[tp], <<a, b>>)
        att0 == DictGet(cd[tp], <<a, b>>)
        att == IF att0 = None \/ Val(att0).n <= Val(att0).d THEN None ELSE att0
        score == LogOdds(att, exp)
        sim == IF ~PyIn("-", a \o b) THEN Lookup(bscorer, a, b) ELSE AverageGop(kw)
        rscore == (kw.ratio[1] * score + kw.ratio[2] * sim) \div (kw.ratio[1] + kw.ratio[2])
    IN IF PyAt(a, 4) \in {"X", "Y", "Z", "T", "_"} /\ PyAt(b, 4) \in {"X", "Y", "Z", "T", "_"}
       THEN (kw.vscale * rscore) \div 1000
       ELSE rscore

CellScore(kw, cd, rd, tp, a, b) ==
    LET exp == DictGet(rd[tp], <<a, b>>)
        att0 == DictGet(cd[tp], <<a, b>>)
        att == IF (att0 = None \/ Val(att0).n <= Val(att0).d) /\ tp[1] # tp[2] THEN None ELSE att0
        score == LogOdds(att, exp)
        sim == IF ~PyIn("-", a \o b) THEN Lookup(bscorer, a, b) ELSE AverageGop(kw)
        rscore == (kw.ratio[1] * score + kw.ratio[2] * sim) \div (kw.ratio[1] + kw.ratio[2])
    IN IF PyAt(a, 4) \in {"X", "Y", "Z", "T", "_"} /\ PyAt(b, 4) \in {"X", "Y", "Z", "T", "_"}
       THEN (kw.vscale * rscore) \div 1000
       ELSE rscore

\* faulty variant of WriteCell: the mirrored cell is not written
WriteCellOneWay(m, chs, a, b, v) ==
    IF a \in Range(chs) /\ b \in Range(chs)
    THEN LET ia == CHOOSE k \in 1..Len(chs) : chs[k] = a
             ib == CHOOSE k \in 1..Len(chs) : chs[k] = b
         IN [m EXCEPT ![ia][ib] = v]
    ELSE m

WriteCell(m, chs, a, b, v) ==
    IF a \in Range(chs) /\ b \in Range(chs)
    THEN LET ia == CHOOSE k \in 1..Len(chs) : chs[k] = a
             ib == CHOOSE k \in 1..Len(chs) : chs[k] = b
             m1 == [m EXCEPT ![ia][ib] = v]
         IN [m1 EXCEPT ![ib][ia] = v]
    ELSE m

RECURSIVE FoldCells(_, _, _, _, _, _, _)
FoldCells(m, cells, n, kw, cd, rd, tp) ==
    IF n = 0 THEN m
    ELSE WriteCell(FoldCells(m, cells, n - 1, kw, cd, rd, tp), chars,
                   cells[n][1], cells[n][2],
                   CellScore(kw, cd, rd, tp, cells[n][1], cells[n][2]))

\* the body of the loop over the language pairs, for one pair
SynthPair(m, kw, cd, rd, tp) ==
    LET cells == CrossSeq(FreqSeq(data, tp[1]) \o <<GapSymbol(tp[1])>>,
                          FreqSeq(data, tp[2]) \o <<GapSymbol(tp[2])>>)
    IN FoldCells(m, cells, Len(cells), kw, cd, rd, tp)

RECURSIVE SynthAll(_, _, _, _, _)
\* the matrix after the first n language pairs
SynthAll(m, kw, cd, rd, n) ==
    IF n = 0 THEN m ELSE SynthPair(SynthAll(m, kw, cd, rd, n - 1), kw, cd, rd, PairSeq[n])

(***************************************************************************)
(* cluster                                                                 *)
(***************************************************************************)
Methods == {"lexstat", "sca", "turchin", "edit-dist", "custom"}

\* the results of the flat clusterer of the model, per concept
Styles == {"one", "each"}
FlatCluster(style, n) == [i \in 1..n |-> IF style = "one" THEN 1 ELSE i]
\* one result per concept: all "one", all "each", or alternating
Labelings ==
    {[c \in Concepts |-> s] : s \in Styles}
        \cup {[c \in Concepts |-> IF c % 2 = 1 THEN "one" ELSE "each"]}

ColNames == {"scaid", "lexstatid", "turchinid", "customid", "editid"}
ColName(method, ref) ==
    IF ref # "" THEN ref
    ELSE CASE method = "turchin" -> "turchinid"
           [] method = "lexstat" -> "lexstatid"
           [] method = "sca" -> "scaid"
           [] method = "custom" -> "customid"
           [] OTHER -> "editid"

SeqMax(s) == CHOOSE x \in Range(s) : \A y \in Range(s) : y <= x

\* faulty variant of ClusterStep: the ids are not offset by k
ClusterStepNoOffset(acc, indices, c) ==
    LET clusters == ListOf([i \in 1..Len(indices) |-> c[i]], Len(indices))
    IN [k |-> SeqMax(clusters),
        clr |-> [x \in (DOMAIN acc.clr) \cup Range(indices) |->
                    IF x \in Range(indices)
                    THEN clusters[CHOOSE i \in 1..Len(indices) : indices[i] = x]
                    ELSE acc.clr[x]]]

\* faulty variant of ClusterStep: the clusterer's ids are taken as 0-based
ClusterStepZeroBased(acc, indices, c) ==
    LET clusters == ListOf([i \in 1..Len(indices) |-> c[i] - 1 + acc.k], Len(indices))
    IN [k |-> SeqMax(clusters),
        clr |-> [x \in (DOMAIN acc.clr) \cup Range(indices) |->
                    IF x \in Range(indices)
                    THEN clusters[CHOOSE i \in 1..Len(indices) : indices[i] = x]
                    ELSE acc.clr[x]]]

\* the extraction of the clusters of one concept and the new value of k
ClusterStep(acc, indices, c) ==
    LET clusters == ListOf([i \in 1..Len(indices) |-> c[i] + acc.k], Len(indices))
    IN [k |-> SeqMax(clusters),
        clr |-> [x \in (DOMAIN acc.clr) \cup Range(indices) |->
                    IF x \in Range(indices)
                    THEN clusters[CHOOSE i \in 1..Len(indices) : indices[i] = x]
                    ELSE acc.clr[x]]]

RECURSIVE ClusterLoop(_, _, _)
\* the loop over the matrices of the first n concepts
ClusterLoop(rows, n, lab) ==
    IF n = 0 THEN [k |-> 0, clr |-> <<>>]
    ELSE ClusterStep(ClusterLoop(rows, n - 1, lab), GetListRow(data, rows[n]),
                     FlatCluster(lab[rows[n]], Len(GetListRow(data, rows[n]))))

\* number of distances _get_matrices computes
NumDistances == Sum([n \in 1..Len(Rows(data)) |->
                        (Len(GetListRow(data, Rows(data)[n])) * (Len(GetListRow(data, Rows(data)[n])) - 1)) \div 2],
                    Len(Rows(data)))

\* the gap-weight lookups of the lexstat distance raise KeyError
LexstatKeyError(sc) ==
    \E i \in IdsOf(data) : Str(LangIdOf(data, i)) \o <<".", "X", ".", "-">> \notin Range(sc.chars)

\* faulty variant of NoScorer: the missing scorer goes unnoticed
NoScorerIgnored(method) == FALSE

\* _get_matrices: "No correspondence-scorer has been specified", no matrix
NoScorer(method) == method = "lexstat" /\ cscorer = None

\* the flat-clustering procedure bound to fclust; None when no branch of
\* the selection matches the cluster_method
Fclust(cm) ==
    IF cm \in {"upgma", "single", "complete"} THEN Some("flat_cluster")
    ELSE IF cm = "mcl" THEN Some("mcl")
    ELSE IF cm \in {"lcl", "link_clustering", "lc"} THEN Some("link_clustering")
    ELSE None

\* threshold=False: False is the number 0
PyFalse == 0
\* the result of clustering.best_threshold over gt_trange
BestThreshold == 500

\* clustering.best_threshold(matrix, gt_trange) for the matrix of a concept
BestThresholdOf(c) == IF c % 2 = 1 THEN BestThreshold - 100 ELSE BestThreshold + 100

\* sum(thresholds) / len(thresholds) over the matrices of all concepts
AverageThreshold(rows) ==
    Sum([n \in 1..Len(rows) |-> BestThresholdOf(rows[n])], Len(rows)) \div Len(rows)

\* faulty variant of LoopRows: the pass that guesses the average threshold
\* leaves the iterator of the matrices exhausted
LoopRowsExhausted(gt) == IF gt = "average" THEN <<>> ELSE Rows(data)

\* the concepts whose matrices the clustering loop receives: the iterator
\* of _get_matrices, or the list made of it when the average is guessed
LoopRows(gt) == Rows(data)

\* the cut height t of the concept c; gt is the gt_mode of a call with
\* guess_threshold=True and "" without it; None when no branch assigns t
CutOf(threshold, gt, c) ==
    IF gt = "item" THEN Some(BestThresholdOf(c))
    ELSE IF gt = "nullditem" THEN None
    ELSE IF gt = "average" THEN Some(AverageThreshold(Rows(data)))
    ELSE Some(threshold)

\* cluster(method, cluster_method, threshold, ref) on the state st =
\* [params, stamp, cols]; lab is the clusterer's result, ovr the answer to
\* add_entries' question when the column exists
ClusterRun(st, method, cm, threshold, gt, ref, lab, ovr) ==
    LET cl == <<method, cm, Fmt2(threshold)>>
        params1 == IF HasParams(st.params) THEN Some([Val(st.params) EXCEPT !.cluster = Some(cl)])
                   ELSE Some([cscorer |-> None, cluster |-> Some(cl)])
        stamp1 == Append(st.stamp, <<"# Cluster: ">> \o cl)
        col == ColName(method, ref)
        noscorer == NoScorer(method)
        keyerror == method = "lexstat" /\ cscorer # None /\ NumDistances > 0 /\ LexstatKeyError(Val(cscorer))
        rows == LoopRows(gt)
        res == ClusterLoop(rows, Len(rows), lab)
        base == [params |-> params1, stamp |-> stamp1, cols |-> st.cols,
                 used |-> None, ndist |-> 0, method |-> method, col |-> col,
                 fclust |-> Fclust(cm), cuts |-> <<>>, concepts |-> <<>>]
    IN IF method \notin Methods THEN base @@ [outcome |-> "ValueError"]
       ELSE IF noscorer THEN base @@ [outcome |-> "noscorer"]
       ELSE IF keyerror THEN [base EXCEPT !.used = cscorer] @@ [outcome |-> "KeyError"]
       ELSE IF rows # <<>> /\ (Fclust(cm) = None \/ CutOf(threshold, gt, rows[1]) = None)
            THEN [base EXCEPT !.used = IF method = "lexstat" THEN cscorer ELSE None]
                 @@ [outcome |-> "UnboundLocalError"]
       ELSE [base EXCEPT !.cols = IF st.cols[col] # None /\ ~ovr THEN st.cols
                                  ELSE [st.cols EXCEPT ![col] = Some(res.clr)],
                         !.used = IF method = "lexstat" THEN cscorer ELSE None,
                         !.ndist = NumDistances,
                         !.cuts = [n \in 1..Len(rows) |-> Val(CutOf(threshold, gt, rows[n]))],
                         !.concepts = rows]
            @@ [outcome |-> "ok", clr |-> res.clr]

(***************************************************************************)
(* get_scorer as a sequence of steps: the call (parameter check and        *)
(* record), _get_corrdist, _get_randist, the loop over the language pairs  *)
(* and the installation of the scorer.  An error or an interrupt ends the  *)
(* call at any step.                                                       *)
(***************************************************************************)
MaxStamp == 3

Idle == [pc |-> "idle"]

\* faulty variant of ScorerCached: every call recomputes
ScorerNeverCached(sc, pr, kw) == FALSE

\* faulty variant of ScorerCached: only the recorded parameters are compared
ScorerCachedByParams(sc, pr, kw) ==
    /\ HasParams(pr) /\ ~kw.force
    /\ Val(pr).cscorer # None
    /\ Val(pr).cscorer = Some(ScorerParams(kw))

\* the two early returns of get_scorer
ScorerCached(sc, pr, kw) ==
    \/ sc # None /\ ~kw.force
    \/ /\ HasParams(pr) /\ ~kw.force
       /\ Val(pr).cscorer # None
       /\ Val(pr).cscorer = Some(ScorerParams(kw))

GetScorer(kw) ==
    /\ gs.pc = "idle"
    /\ IF ScorerCached(cscorer, params, kw)
       THEN /\ last' = [op |-> "get_scorer", kw |-> kw, outcome |-> "skipped"]
            /\ UNCHANGED <<idxVars, subsets, scVars, installed>>
       ELSE /\ Len(stamp) < MaxStamp
            /\ params' = Some([cscorer |-> Some(ScorerParams(kw)), cluster |-> None])
            /\ stamp' = Append(stamp, ParString(ScorerParams(kw)))
            /\ gs' = [pc |-> "corrdist", kw |-> kw]
            /\ last' = [op |-> "get_scorer", kw |-> kw, outcome |-> "started"]
            /\ UNCHANGED <<idxVars, subsets, cscorer, corrdist, randist, included, cols, installed>>

GSCorrdist(lab) ==
    /\ gs.pc = "corrdist"
    /\ \E kw \in {gs.kw} :
       \E pre \in {kw.preprocessing /\ cols["scaid"] = None} :
       \E run \in {IF pre
                    THEN ClusterRun([params |-> params, stamp |-> stamp, cols |-> cols],
                                    kw.preprocessing_method, kw.cluster_method,
                                    kw.preprocessing_threshold, "", "scaid", lab, FALSE)
                    ELSE [params |-> params, stamp |-> stamp, cols |-> cols]} :
          /\ params' = run.params
          /\ stamp' = run.stamp
          /\ cols' = run.cols
          /\ IF kw.subset /\ subsets = None
             THEN /\ gs' = Idle
                  /\ last' = [op |-> "get_scorer", kw |-> kw, outcome |-> "AttributeError"]
                  /\ UNCHANGED included
             ELSE \E res \in {[tp \in TaxonPairs |-> GetCorrdistFor(kw, run.cols["scaid"], tp)]} :
                     /\ included' = Some([tp \in TaxonPairs |-> res[tp].included])
                     /\ gs' = [pc |-> "randist", kw |-> kw,
                               corr |-> [tp \in TaxonPairs |-> res[tp].dist]]
                     /\ UNCHANGED last
    /\ UNCHANGED <<idxVars, subsets, cscorer, corrdist, randist, installed>>

GSRandist(seed) ==
    /\ gs.pc = "randist"
    /\ IF RandMethod(gs.kw) = "markov" /\ transform = None
       THEN /\ gs' = Idle
            /\ last' = [op |-> "get_scorer", kw |-> gs.kw, outcome |-> "AttributeError"]
            /\ UNCHANGED <<corrdist, randist>>
       ELSE IF RandistFails(gs.kw)
       THEN /\ gs' = Idle
            /\ last' = [op |-> "get_scorer", kw |-> gs.kw, outcome |-> "ValueError"]
            /\ UNCHANGED <<corrdist, randist>>
       ELSE /\ corrdist' = Some(gs.corr)
            /\ randist' = Some([tp \in TaxonPairs |-> GetRandistFor(gs.kw, Val(included), tp, seed)])
            /\ IF Len(gs.kw.modes) = 0
               THEN /\ gs' = Idle
                    /\ last' = [op |-> "get_scorer", kw |-> gs.kw, outcome |-> "ZeroDivisionError"]
               ELSE /\ gs' = [pc |-> "matrix", kw |-> gs.kw, matrix |-> bscorer.matrix, pos |-> 1]
                    /\ UNCHANGED last
    /\ UNCHANGED <<idxVars, subsets, cscorer, params, stamp, included, cols, installed>>

\* faulty variant of GSPair: the loop writes into the base matrix itself
GSPairInPlace ==
    /\ gs.pc = "matrix"
    /\ gs.pos <= Len(PairSeq)
    /\ IF gs.kw.ratio[1] + gs.kw.ratio[2] = 0
       THEN /\ gs' = Idle
            /\ last' = [op |-> "get_scorer", kw |-> gs.kw, outcome |-> "ZeroDivisionError"]
            /\ UNCHANGED bscorer
       ELSE /\ gs' = [gs EXCEPT !.matrix = SynthPair(gs.matrix, gs.kw, Val(corrdist), Val(randist), PairSeq[gs.pos]),
                                !.pos = gs.pos + 1]
            /\ bscorer' = [bscorer EXCEPT !.matrix = gs'.matrix]
            /\ UNCHANGED last
    /\ UNCHANGED <<data, duplicates, chars, pairs, transform, subsets, cscorer, params, stamp,
                   corrdist, randist, included, cols, installed>>

GSPair ==
    /\ gs.pc = "matrix"
    /\ gs.pos <= Len(PairSeq)
    /\ IF gs.kw.ratio[1] + gs.kw.ratio[2] = 0
       THEN /\ gs' = Idle
            /\ last' = [op |-> "get_scorer", kw |-> gs.kw, outcome |-> "ZeroDivisionError"]
       ELSE /\ gs' = [gs EXCEPT !.matrix = SynthPair(gs.matrix, gs.kw, Val(corrdist), Val(randist), PairSeq[gs.pos]),
                                !.pos = gs.pos + 1]
            /\ UNCHANGED last
    /\ UNCHANGED <<idxVars, subsets, cscorer, params, stamp, corrdist, randist, included,
                   cols, installed>>

GSInstall ==
    /\ gs.pc = "matrix"
    /\ gs.pos > Len(PairSeq)
    /\ cscorer' = Some(ScoreDict(chars, gs.matrix))
    /\ installed' = Some([kw |-> gs.kw, corrdist |-> Val(corrdist), randist |-> Val(randist)])
    /\ gs' = Idle
    /\ last' = [op |-> "get_scorer", kw |-> gs.kw, outcome |-> "done"]
    /\ UNCHANGED <<idxVars, subsets, params, stamp, corrdist, randist, included, cols>>

\* faulty variant of GSAbort: the aborted call removes the scorer
GSAbortDropsScorer ==
    /\ gs.pc # "idle"
    /\ gs' = Idle
    /\ cscorer' = None
    /\ last' = [op |-> "get_scorer", kw |-> gs.kw, outcome |-> "aborted"]
    /\ UNCHANGED <<idxVars, subsets, params, stamp, corrdist, randist, included,
                   cols, installed>>

\* an exception or an interrupt inside the running call
GSAbort ==
    /\ gs.pc # "idle"
    /\ gs' = Idle
    /\ last' = [op |-> "get_scorer", kw |-> gs.kw, outcome |-> "aborted"]
    /\ UNCHANGED <<idxVars, subsets, cscorer, params, stamp, corrdist, randist, included,
                   cols, installed>>

(***************************************************************************)
(* cluster, align_pairs, get_distances, get_random_distances               *)
(***************************************************************************)
CallMethods == {"sca", "lexstat", "nj"}

\* the cluster calls of the model: every method with the defaults, and for
\* the method sca the other cluster methods, threshold=False and
\* guess_threshold=True with the gt_modes 'nullditem', 'average' and 'item'
ClusterCalls ==
    {[method |-> m, cm |-> "upgma", threshold |-> 300, gt |-> ""] : m \in CallMethods}
        \cup {[method |-> "sca", cm |-> c, threshold |-> 300, gt |-> ""] :
                 c \in {"single", "complete", "mcl", "link-clustering"}}
        \cup {[method |-> "sca", cm |-> "upgma", threshold |-> 300, gt |-> g] :
                 g \in {"average", "item"}}
        \cup {[method |-> "sca", cm |-> "upgma", threshold |-> 300, gt |-> "nullditem"],
              [method |-> "sca", cm |-> "upgma", threshold |-> PyFalse, gt |-> ""]}

\* the pairs of words _get_matrices computes a distance for
MatrixPairs ==
    {p \in IdsOf(data) \X IdsOf(data) :
        /\ ConceptOf(data, p[1]) = ConceptOf(data, p[2])
        /\ LET L == GetListRow(data, ConceptOf(data, p[1]))
           IN (CHOOSE n \in 1..Len(L) : L[n] = p[1]) < (CHOOSE n \in 1..Len(L) : L[n] = p[2])}

\* [self.cscorer[lid + '.X.-', n] for n in numbers]
GapWeights(lid, numbers) ==
    [k \in 1..Len(numbers) |->
        Lookup(Val(cscorer), Str(lid) \o <<".", "X", ".", "-">>, numbers[k])]

\* the scorer, the gap-open value and the gap weights align_pairs hands to
\* the aligner for method='lexstat'
AlignPairArgs(idxA, idxB) ==
    [scorer |-> "cscorer", gop |-> 1000,
     weightsA |-> GapWeights(LangIdOf(data, idxA), Numbers(data, idxA)),
     weightsB |-> GapWeights(LangIdOf(data, idxB), Numbers(data, idxB))]

\* the same arguments in the lexstat function of _get_matrices
MatrixArgs(idxA, idxB) ==
    [scorer |-> "cscorer", gop |-> 1000,
     weightsA |-> GapWeights(LangIdOf(data, idxB), Numbers(data, idxA)),
     weightsB |-> GapWeights(LangIdOf(data, idxA), Numbers(data, idxB))]

Cluster(call, lab, ovr) ==
    /\ gs.pc = "idle"
    /\ Len(stamp) < MaxStamp
    /\ \E run \in {ClusterRun([params |-> params, stamp |-> stamp, cols |-> cols],
                               call.method, call.cm, call.threshold, call.gt, "", lab, ovr)} :
          /\ params' = run.params
          /\ stamp' = run.stamp
          /\ cols' = run.cols
          /\ last' = [op |-> "cluster", method |-> call.method, outcome |-> run.outcome,
                      used |-> run.used, ndist |-> run.ndist, col |-> run.col,
                      cm |-> call.cm, threshold |-> call.threshold, gt |-> call.gt,
                      fclust |-> run.fclust, cuts |-> run.cuts,
                      concepts |-> run.concepts, lab |-> lab,
                      args |-> IF call.method = "lexstat" /\ run.outcome = "ok"
                                      /\ cscorer # None
                               THEN [p \in MatrixPairs |-> MatrixArgs(p[1], p[2])]
                               ELSE <<>>,
                      clr |-> IF run.outcome = "ok" THEN Some(run.clr) ELSE None]
    /\ UNCHANGED <<idxVars, subsets, cscorer, corrdist, randist, included, gs, installed>>

\* the outcome of an alignment of two words with the given method
AlignOutcome(method) ==
    IF method = "lexstat" /\ cscorer = None THEN "AttributeError"
    ELSE IF method = "lexstat" /\ LexstatKeyError(Val(cscorer)) THEN "KeyError"
    ELSE "ok"

AlignPairs(method) ==
    /\ gs.pc = "idle"
    /\ last' = [op |-> "align_pairs", method |-> method, outcome |-> AlignOutcome(method)]
    /\ UNCHANGED <<idxVars, subsets, scVars, installed>>

\* align_pairs(pA, pB, method=method) raises an error
PairAlignFails(method, p) ==
    /\ method = "lexstat"
    /\ \/ cscorer = None
       \/ \E i \in {p[1], p[2]} :
             Str(LangIdOf(data, i)) \o <<".", "X", ".", "-">> \notin Range(Val(cscorer).chars)

\* the distance get_distances(aggregate=True) records for one pair of words
PairDistance(method, p) ==
    IF PairAlignFails(method, p) THEN 1000
    ELSE AlignDist(Numbers(data, p[1]), Numbers(data, p[2]),
                   IF method = "lexstat" THEN "cscorer" ELSE "bscorer")

\* get_distances(method, aggregate=True)
GetDistances(method) ==
    /\ gs.pc = "idle"
    /\ last' = IF \E tp \in TaxonPairs : tp[1] < tp[2] /\ pairs[tp] = <<>>
               THEN [op |-> "get_distances", method |-> method,
                     outcome |-> "ZeroDivisionError"]
               ELSE [op |-> "get_distances", method |-> method, outcome |-> "ok",
                     D |-> [tp \in {x \in TaxonPairs : x[1] < x[2]} |->
                              Rat(Sum([n \in 1..Len(pairs[tp]) |->
                                          PairDistance(method, pairs[tp][n])],
                                      Len(pairs[tp])),
                                  Len(pairs[tp]))]]
    /\ UNCHANGED <<idxVars, subsets, scVars, installed>>

\* the sample get_random_distances draws for one language pair
DistanceSample(tp, runs, seed) ==
    LET pop == Population(Len(pairs[tp]))
    IN IF runs > Len(pop) THEN RandomSample(pop, Len(pairs[tp]), seed)
       ELSE RandomSample(pop, runs, seed)

GetRandomDistances(method, runs, seed) ==
    /\ gs.pc = "idle"
    /\ last' = IF AlignOutcome(method) = "ok"
               THEN [op |-> "get_random_distances", method |-> method, runs |-> runs,
                     outcome |-> "ok",
                     samples |-> [tp \in {x \in TaxonPairs : x[1] < x[2]} |->
                                     DistanceSample(tp, runs, seed)]]
               ELSE [op |-> "get_random_distances", method |-> method, runs |-> runs,
                     outcome |-> AlignOutcome(method)]
    /\ UNCHANGED <<idxVars, subsets, scVars, installed>>

(***************************************************************************)
(* Specifications.                                                         *)
(***************************************************************************)
Constructed(d) ==
    /\ data = d
    /\ duplicates = BuildDuplicates(d)
    /\ chars = BuildChars(d)
    /\ bscorer = ScoreDict(BuildChars(d), BuildBMatrix(BuildChars(d)))
    /\ pairs = BuildPairs(d, BuildDuplicates(d))
    /\ transform = Some("lexstat_transform")
    /\ subsets = None
    /\ cscorer = None
    /\ params = None
    /\ stamp = <<"# Created using the LexStat class of LingPy-2.0">>
    /\ corrdist = None
    /\ randist = None
    /\ included = None
    /\ cols = [c \in ColNames |-> None]
    /\ gs = Idle
    /\ installed = None
    /\ last = [op |-> "init"]

\* the index: every word list of the bounds, then get_subset calls
InitIndex == \E d \in AllData : Constructed(d)

NextIndex == \E ref \in Refs : \E sublist \in SUBSET RefValues(ref) : GetSubset(sublist, ref)

SpecIndex == InitIndex /\ [][NextIndex]_vars

\* the distances: every word list of the bounds, then get_distances calls
NextDistances == \E method \in {"sca", "lexstat"} : GetDistances(method)

SpecDistances == InitIndex /\ [][NextDistances]_vars

\* the sampling loop of the Markov method for one language: every word
\* list of the bounds, then the draws of the generator
MaxDuplicates == 5

\* the keywords of the sampling loop: rands strings, limit duplicates
SamplingKw == [DefaultKw EXCEPT !.limit = 3]

\* the strings m.get_string can return for a language: those of its words
Generated(t) == {IpaOf(data, i) : i \in {j \in IdsOf(data) : TaxonOf(data, j) = t}}

InitSampling ==
    \E d \in AllData : \E t \in Taxa :
        /\ data = d
        /\ duplicates = BuildDuplicates(d)
        /\ chars = BuildChars(d)
        /\ bscorer = ScoreDict(BuildChars(d), BuildBMatrix(BuildChars(d)))
        /\ pairs = BuildPairs(d, BuildDuplicates(d))
        /\ transform = Some("lexstat_transform")
        /\ subsets = None
        /\ cscorer = None
        /\ params = None
        /\ stamp = <<"# Created using the LexStat class of LingPy-2.0">>
        /\ corrdist = None
        /\ randist = None
        /\ included = None
        /\ cols = [c \in ColNames |-> None]
        /\ gs = [pc |-> "sampling", kw |-> SamplingKw, taxon |-> t,
                 words |-> <<>>, j |-> 0, k |-> 0]
        /\ installed = None
        /\ last = [op |-> "init"]

\* one pass of the while loop: s is the string the generator returns; the
\* counter k is only compared with limit and is kept at MaxDuplicates
SampleDraw(s) ==
    /\ gs.pc = "sampling"
    /\ gs.j < gs.kw.rands
    /\ gs' = IF s \in Range(gs.words)
                THEN [gs EXCEPT !.k = Min(gs.k + 1, MaxDuplicates)]
             ELSE IF gs.k < gs.kw.limit
                THEN [gs EXCEPT !.j = gs.j + 1, !.words = Append(gs.words, s)]
             ELSE [gs EXCEPT !.j = gs.j + 1, !.words = Append(gs.words, s)]
    /\ last' = [op |-> "get_string", s |-> s, repeat |-> s \in Range(gs.words)]
    /\ UNCHANGED <<idxVars, subsets, cscorer, params, stamp, corrdist, randist,
                   included, cols, installed>>

\* the loop condition fails: the sample of the language is complete
SampleDone ==
    /\ gs.pc = "sampling"
    /\ gs.j >= gs.kw.rands
    /\ gs' = [gs EXCEPT !.pc = "sampled"]
    /\ last' = [op |-> "sampled"]
    /\ UNCHANGED <<idxVars, subsets, cscorer, params, stamp, corrdist, randist,
                   included, cols, installed>>

NextSampling ==
    \/ \E s \in Generated(gs.taxon) : SampleDraw(s)
    \/ SampleDone

\* the loop runs on: a pass that changes the state is eventually taken
SpecSampling == InitSampling /\ [][NextSampling]_vars /\ WF_vars(NextSampling)

\* _get_corrdist on its own: every word list of the bounds and one with a
\* shorter word on either side and a pair above the threshold
GapWords ==
    [words |-> << [taxon |-> 1, concept |-> 1, form |-> 3],
                  [taxon |-> 1, concept |-> 2, form |-> 2],
                  [taxon |-> 2, concept |-> 1, form |-> 2],
                  [taxon |-> 2, concept |-> 2, form |-> 3],
                  [taxon |-> 2, concept |-> 1, form |-> 1] >>,
     langbase |-> 0]

\* the keyword sets of the _get_corrdist calls of the model
CorrdistKws ==
    { [DefaultKw EXCEPT !.preprocessing = FALSE],
      [DefaultKw EXCEPT !.preprocessing = FALSE, !.preprocessing_threshold = 400],
      [DefaultKw EXCEPT !.preprocessing = FALSE, !.modes = << <<"global", 0 - 2, 500>> >>] }

\* self._get_corrdist(**kw): the returned map is kept in last
GetCorrdist(kw) ==
    /\ gs.pc = "idle"
    /\ \E res \in {[tp \in TaxonPairs |-> GetCorrdistFor(kw, None, tp)]} :
          /\ included' = Some([tp \in TaxonPairs |-> res[tp].included])
          /\ last' = [op |-> "_get_corrdist", kw |-> kw,
                      corrdist |-> [tp \in TaxonPairs |-> res[tp].dist]]
    /\ UNCHANGED <<idxVars, subsets, cscorer, params, stamp, corrdist, randist,
                   cols, gs, installed>>

InitCorrdist == \E d \in AllData \cup {GapWords} : Constructed(d)

NextCorrdist == \E kw \in CorrdistKws : GetCorrdist(kw)

SpecCorrdist == InitCorrdist /\ [][NextCorrdist]_vars

\* the scorer and the clustering: word lists with one word per taxon and
\* concept, in two assignments of forms; the second carries a langid column
MainWords == 4

MainData ==
    {[words |-> [k \in 1..MainWords |->
                    [taxon |-> ((k - 1) % NTaxa) + 1,
                     concept |-> Min(((k - 1) \div NTaxa) + 1, NConcepts),
                     form |-> IF v = 1 THEN ((k - 1) % NForms) + 1
                              ELSE (((k - 1) \div NTaxa) % NForms) + 1]],
      langbase |-> IF v = 1 THEN 0 ELSE 9] : v \in {1, 2}}

Init == \E d \in MainData : Constructed(d)

Next ==
    \/ \E kw \in Kws : GetScorer(kw)
    \/ \E lab \in (IF gs.pc = "corrdist" /\ gs.kw.preprocessing /\ cols["scaid"] = None
                   THEN Labelings ELSE {CHOOSE l \in Labelings : TRUE}) : GSCorrdist(lab)
    \/ \E seed \in Seeds : GSRandist(seed)
    \/ GSPair
    \/ GSInstall
    \/ GSAbort
    \/ \E call \in ClusterCalls :
         \E ovr \in (IF cols[ColName(call.method, "")] # None THEN BOOLEAN ELSE {TRUE}) :
           \E lab \in (IF ovr /\ call.method \in Methods THEN Labelings
                        ELSE {CHOOSE l \in Labelings : TRUE}) :
              Cluster(call, lab, ovr)
    \/ \E method \in {"sca", "lexstat"} : AlignPairs(method)
    \/ GetDistances("lexstat")
    \/ \E runs \in {2, 100} : \E seed \in Seeds : GetRandomDistances("lexstat", runs, seed)
    \/ GetSubset({1}, "concept")

Spec == Init /\ [][Next]_vars

\* the parameter record on its own: get_scorer calls that record their
\* parameters and end before the scorer is installed.  The keyword sets
\* are those of the scorer calls and the default changed in one option.
SignatureConfigs ==
    Configs \cup
    { [DefaultKw EXCEPT !.rands = 3],
      [DefaultKw EXCEPT !.limit = 11],
      [DefaultKw EXCEPT !.subset = TRUE],
      [DefaultKw EXCEPT !.preprocessing_method = "edit-dist"],
      [DefaultKw EXCEPT !.modes = << <<"global", 2, 500>>, <<"local", 0 - 1, 500>> >>],
      [DefaultKw EXCEPT !.modes = << <<"global", 0 - 2, 501>>, <<"local", 0 - 1, 500>> >>],
      [DefaultKw EXCEPT !.vscale = 400],
      [DefaultKw EXCEPT !.factor = 200],
      [DefaultKw EXCEPT !.restricted_chars = "T"],
      [DefaultKw EXCEPT !.preprocessing_threshold = 600],
      [DefaultKw EXCEPT !.cluster_method = "single"],
      [DefaultKw EXCEPT !.gop = 0 - 1] }

SignatureKws == {[k EXCEPT !.force = f] : k \in SignatureConfigs, f \in BOOLEAN}

NextSignature ==
    \/ \E kw \in SignatureKws : GetScorer(kw)
    \/ GSAbort

SpecSignature == Init /\ [][NextSignature]_vars

\* construction on its own: the word list with any of the optional columns
\* already in its header (a langid column is the langbase of the word
\* list) and any answer to the question of the input check, then
\* get_scorer and cluster calls on the object
OptionalColumns == {"tokens", "numbers", "weights", "duplicates"}

\* "none": check=False or no errors found; else the answer to the question
Answers == {"none", "y", "n"}

ConstructedFrom(d, header, answer) ==
    /\ data = d
    /\ IF answer = "n"
       THEN /\ duplicates = IF "duplicates" \in header THEN BuildDuplicates(d) ELSE None
            /\ chars = None
            /\ bscorer = None
            /\ pairs = None
            /\ transform = None
       ELSE /\ duplicates = BuildDuplicates(d)
            /\ chars = BuildChars(d)
            /\ bscorer = ScoreDict(BuildChars(d), BuildBMatrix(BuildChars(d)))
            /\ pairs = BuildPairs(d, BuildDuplicates(d))
            /\ transform = IF "numbers" \in header THEN None ELSE Some("lexstat_transform")
    /\ subsets = None
    /\ cscorer = None
    /\ params = None
    /\ stamp = <<"# Created using the LexStat class of LingPy-2.0">>
    /\ corrdist = None
    /\ randist = None
    /\ included = None
    /\ cols = [c \in ColNames |-> None]
    /\ gs = Idle
    /\ installed = None
    /\ last = [op |-> "init", header |-> header, answer |-> answer]

InitConstruct ==
    \E d \in MainData : \E header \in SUBSET OptionalColumns : \E answer \in Answers :
        ConstructedFrom(d, header, answer)

\* cluster(method='sca') on an object whose constructor returned before the
\* columns were built: the record is written, then the distances fail
ClusterUnbuilt ==
    /\ gs.pc = "idle"
    /\ chars = None
    /\ Len(stamp) < MaxStamp
    /\ \E run \in {ClusterRun([params |-> params, stamp |-> stamp, cols |-> cols],
                               "sca", "upgma", 300, "", "", CHOOSE l \in Labelings : TRUE, TRUE)} :
          /\ params' = run.params
          /\ stamp' = run.stamp
    /\ last' = [op |-> "cluster", method |-> "sca", outcome |-> "error"]
    /\ UNCHANGED <<idxVars, subsets, cscorer, corrdist, randist, included, cols, gs, installed>>

\* _get_corrdist on such an object: the preprocessing clustering fails
GSCorrdistUnbuilt ==
    /\ gs.pc = "corrdist"
    /\ chars = None
    /\ \E run \in {IF gs.kw.preprocessing
                    THEN ClusterRun([params |-> params, stamp |-> stamp, cols |-> cols],
                                    gs.kw.preprocessing_method, gs.kw.cluster_method,
                                    gs.kw.preprocessing_threshold, "", "scaid",
                                    CHOOSE l \in Labelings : TRUE, FALSE)
                    ELSE [params |-> params, stamp |-> stamp]} :
          /\ params' = run.params
          /\ stamp' = run.stamp
    /\ gs' = Idle
    /\ last' = [op |-> "get_scorer", kw |-> gs.kw, outcome |-> "error"]
    /\ UNCHANGED <<idxVars, subsets, cscorer, corrdist, randist, included, cols, installed>>

NextConstruct ==
    \/ \E kw \in {DefaultKw, [DefaultKw EXCEPT !.method = "shuffle"]} : GetScorer(kw)
    \/ \E lab \in Labelings : chars # None /\ GSCorrdist(lab)
    \/ GSCorrdistUnbuilt
    \/ \E seed \in Seeds : GSRandist(seed)
    \/ GSPair
    \/ GSInstall
    \/ chars # None /\ Cluster([method |-> "sca", cm |-> "upgma", threshold |-> 300, gt |-> ""],
                               CHOOSE l \in Labelings : TRUE, TRUE)
    \/ ClusterUnbuilt

SpecConstruct == InitConstruct /\ [][NextConstruct]_vars

(***************************************************************************)
(* word_pair_probability and get_prefixes                                  *)
(* (src/devtools/evolaemp/data/eurasian/ellison_2007_test.py).  Here data  *)
(* is the pair of words with the bounds u and v, and gs holds the call     *)
(* stack, the table intermediate_results and the value being returned.     *)
(***************************************************************************)
MaxWordLen == 2
MaxPrefix == 2

\* the tokens of the words; a token is a string
Tokens == {<<"a">>, <<"a", "a">>}
Hash == <<"#">>

\* the '#'-terminated words of up to MaxWordLen tokens
Words == {w \o <<Hash>> : w \in UNION {[1..n -> Tokens] : n \in 0..MaxWordLen}}

\* "".join(tokens)
Join(tokens) == ConcatTo(tokens, Len(tokens))

\* word[startIndex:startIndex+length]
Slice(word, startIndex, length) == SubSeq(word, startIndex + 1, startIndex + length)

\* the prefixes of the lengths range(u, min(v+1, len(word)-startIndex))
get_prefixes(u, v, word, startIndex) ==
    LET stop == Min(v + 1, Len(word) - startIndex)
    IN IF stop <= u THEN <<>>
       ELSE ListOf([n \in 1..(stop - u) |-> Slice(word, startIndex, u + n - 1)], stop - u)

\* max(min_prob, hypothesis[correspondence_index[(a, b)]]) for two joined
\* prefixes: a positive weight per correspondence
Hypothesis(a, b) == 1 + Len(a) + 2 * Len(b) + (IF a = b THEN 3 ELSE 0)

\* faulty variant of MemoKey: the table is keyed by the rest of word1 only
MemoKeyFirstWord(word1, word2, s1, s2) ==
    <<Join(Slice(word1, s1, Len(word1) - s1)), <<>>>>

\* the key of intermediate_results: the joined rests of the two words
MemoKey(word1, word2, s1, s2) ==
    <<Join(Slice(word1, s1, Len(word1) - s1)), Join(Slice(word2, s2, Len(word2) - s2))>>

Frame(s1, s2) == [s1 |-> s1, s2 |-> s2, st |-> "enter", todo |-> <<>>, total |-> 0, mult |-> 0]

InitWordPair ==
    /\ data \in [word1 : Words, word2 : Words, u : 0..MaxPrefix, v : 0..MaxPrefix]
    /\ data.u <= data.v
    /\ duplicates = None
    /\ chars = None
    /\ bscorer = None
    /\ pairs = None
    /\ transform = None
    /\ subsets = None
    /\ cscorer = None
    /\ params = None
    /\ stamp = <<>>
    /\ corrdist = None
    /\ randist = None
    /\ included = None
    /\ cols = None
    /\ gs = [pc |-> "run", stack |-> <<Frame(0, 0)>>, memo |-> <<>>, ret |-> None, hits |-> 0]
    /\ installed = None
    /\ last = [op |-> "call"]

\* the variables of the other operations
restVars == <<data, duplicates, chars, bscorer, pairs, transform, subsets, cscorer, params,
              stamp, corrdist, randist, included, cols, installed>>

Top == gs.stack[Len(gs.stack)]
Pop == SubSeq(gs.stack, 1, Len(gs.stack) - 1)

\* the start of a call: the table is looked up, then the end of both words
\* is tested, else the loops over the prefixes begin
WPEnter ==
    /\ gs.pc = "run" /\ gs.ret = None /\ Top.st = "enter"
    /\ LET key == MemoKey(data.word1, data.word2, Top.s1, Top.s2)
       IN IF key \in DOMAIN gs.memo
          THEN /\ gs' = [gs EXCEPT !.ret = Some(gs.memo[key]), !.stack = Pop,
                                   !.hits = Min(gs.hits + 1, 1)]
               /\ last' = [op |-> "retrieved"]
          ELSE IF Top.s1 = Len(data.word1) - 1 /\ Top.s2 = Len(data.word2) - 1
          THEN /\ gs' = [gs EXCEPT !.ret = Some(Hypothesis(Hash, Hash)), !.stack = Pop]
               /\ last' = [op |-> "end"]
          ELSE /\ gs' = [gs EXCEPT !.stack[Len(gs.stack)] =
                            [Top EXCEPT !.st = "loop",
                                        !.todo = CrossSeq(
                                            get_prefixes(data.u, data.v, data.word1, Top.s1),
                                            get_prefixes(data.u, data.v, data.word2, Top.s2))]]
               /\ last' = [op |-> "loop"]
    /\ UNCHANGED restVars

\* one pass of the inner loop: two empty prefixes are skipped, else the
\* function calls itself behind the two prefixes
WPBranch ==
    /\ gs.pc = "run" /\ gs.ret = None /\ Top.st = "loop" /\ Top.todo # <<>>
    /\ LET prefix1 == Head(Top.todo)[1]
           prefix2 == Head(Top.todo)[2]
       IN IF Len(prefix1) = 0 /\ Len(prefix2) = 0
          THEN /\ gs' = [gs EXCEPT !.stack[Len(gs.stack)].todo = Tail(Top.todo)]
               /\ last' = [op |-> "continue"]
          ELSE /\ gs' = [gs EXCEPT !.stack =
                            Append([gs.stack EXCEPT ![Len(gs.stack)] =
                                       [Top EXCEPT !.todo = Tail(Top.todo),
                                                   !.mult = Hypothesis(Join(prefix1), Join(prefix2))]],
                                   Frame(Top.s1 + Len(prefix1), Top.s2 + Len(prefix2)))]
               /\ last' = [op |-> "recurse"]
    /\ UNCHANGED restVars

\* the recursive call has returned: the branch is added to the total
WPResume ==
    /\ gs.pc = "run" /\ gs.ret # None /\ gs.stack # <<>>
    /\ gs' = [gs EXCEPT !.stack[Len(gs.stack)].total = Top.total + Top.mult * Val(gs.ret),
                        !.ret = None]
    /\ last' = [op |-> "added"]
    /\ UNCHANGED restVars

\* the loops are over: the total is stored in the table and returned
WPStore ==
    /\ gs.pc = "run" /\ gs.ret = None /\ Top.st = "loop" /\ Top.todo = <<>>
    /\ LET key == MemoKey(data.word1, data.word2, Top.s1, Top.s2)
       IN gs' = [gs EXCEPT !.memo = [k \in (DOMAIN gs.memo) \cup {key} |->
                                         IF k = key THEN Top.total ELSE gs.memo[k]],
                           !.ret = Some(Top.total), !.stack = Pop]
    /\ last' = [op |-> "stored"]
    /\ UNCHANGED restVars

\* the outermost call returns
WPDone ==
    /\ gs.pc = "run" /\ gs.ret # None /\ gs.stack = <<>>
    /\ gs' = [gs EXCEPT !.pc = "done"]
    /\ last' = [op |-> "returned", result |-> Val(gs.ret)]
    /\ UNCHANGED restVars

NextWordPair == WPEnter \/ WPBranch \/ WPResume \/ WPStore \/ WPDone

\* the interpreter runs the call on: a step that can be taken is taken
SpecWordPair == InitWordPair /\ [][NextWordPair]_vars /\ WF_vars(NextWordPair)

(***************************************************************************)
(* Properties of cluster and get_scorer, stated for Spec.                   *)
(***************************************************************************)
\* C1: in every cognate-id column written by cluster, the ids of the words
\* of an earlier concept are all smaller than the ids of the words of a
\* later concept (each concept's ids are offset by the running maximum), so
\* the id sets of two different concepts are disjoint.
ClassIdsDisjointAcrossConcepts ==
    \A col \in ColNames :
        cols[col] # None =>
            \A i, j \in DOMAIN Val(cols[col]) :
                /\ Val(cols[col])[i] > 0
                /\ ConceptOf(data, i) < ConceptOf(data, j)
                      => Val(cols[col])[i] < Val(cols[col])[j]

\* a cluster call has split the words of one concept into several classes
\* and has assigned ids to the words of a later concept
ClusteredSeveralConcepts ==
    /\ last.op = "cluster" /\ last.outcome = "ok"
    /\ cols[last.col] # None
    /\ \E i, j, k \in DOMAIN Val(cols[last.col]) :
          /\ ConceptOf(data, i) = ConceptOf(data, j)
          /\ Val(cols[last.col])[i] # Val(cols[last.col])[j]
          /\ ConceptOf(data, i) < ConceptOf(data, k)

\* C2: a get_scorer call with force=false whose parameters equal the
\* recorded ones changes nothing: the scorer, the stored attested and
\* expected distributions, the recorded parameters and the stamp stay.
RepeatedGetScorerIsNoOp ==
    [][\A kw \in Kws :
          (/\ GetScorer(kw)
           /\ ~kw.force
           /\ HasParams(params)
           /\ Val(params).cscorer = Some(ScorerParams(kw)))
          => UNCHANGED <<cscorer, corrdist, randist, included, params, stamp>>]_vars

\* a second call with the recorded parameters has returned, scorer installed
SecondCallSkipped ==
    /\ cscorer # None
    /\ last.op = "get_scorer" /\ last.outcome = "skipped" /\ ~last.kw.force
    /\ Val(params).cscorer = Some(ScorerParams(last.kw))
    /\ Val(installed).kw = [last.kw EXCEPT !.force = Val(installed).kw.force]

\* C3: a get_scorer call with force=false over an existing scorer, with a
\* configuration that differs from the recorded one, starts a recomputation
\* and records the new parameters.
DifferingConfigRecomputes ==
    [][\A kw \in Kws :
          (/\ GetScorer(kw)
           /\ ~kw.force
           /\ cscorer # None
           /\ HasParams(params)
           /\ Val(params).cscorer # Some(ScorerParams(kw)))
          => /\ gs'.pc = "corrdist"
             /\ Val(params').cscorer = Some(ScorerParams(kw))]_vars

\* C4: an installed scorer is left unchanged by every step, except by the
\* final step of a get_scorer call with force=true that has processed every
\* language pair.
ScorerReplacedOnlyByForce ==
    [][cscorer # None =>
          \/ cscorer' = cscorer
          \/ /\ gs.pc = "matrix" /\ gs.pos > Len(PairSeq) /\ gs.kw.force
             /\ last'.op = "get_scorer" /\ last'.outcome = "done"]_vars

\* an alignment with the lexstat method has run on an installed scorer
AlignedWithScorer ==
    /\ cscorer # None
    /\ last.op = "align_pairs" /\ last.method = "lexstat" /\ last.outcome = "ok"

\* C5: the synthesized scorer is symmetric over all symbols of the segment
\* index, the gap symbols of the languages included.
SynthesizedScorerSymmetric ==
    cscorer # None =>
        /\ Range(Val(cscorer).chars) = Range(chars)
        /\ \A t \in Taxa : GapSymbol(t) \in Range(chars)
        /\ \A a, b \in Range(chars) : Lookup(Val(cscorer), a, b) = Lookup(Val(cscorer), b, a)

\* the synthesis has changed the score of two symbols of one language and
\* of two symbols of different languages, a gap symbol among them
SynthesisChangedScores ==
    /\ cscorer # None
    /\ data.langbase = 0
    /\ \E a, b \in Range(chars) :
          /\ a # b /\ a[1] = b[1]
          /\ Lookup(Val(cscorer), a, b) # Lookup(bscorer, a, b)
    /\ \E a, b \in Range(chars) :
          /\ a[1] # b[1]
          /\ \E t \in Taxa : b = GapSymbol(t)
          /\ Lookup(Val(cscorer), a, b) # Lookup(bscorer, a, b)

\* C6: a visible scorer is the matrix of a get_scorer call that has processed
\* every language pair; while a call is running no other operation runs; a
\* lexstat clustering that computes a distance uses the installed scorer,
\* and without a scorer it computes no distance and assigns no id.
LexstatClusteringUsesCompleteScorer ==
    /\ cscorer # None =>
          /\ installed # None
          /\ Val(cscorer).matrix =
                SynthAll(bscorer.matrix, Val(installed).kw, Val(installed).corrdist,
                         Val(installed).randist, Len(PairSeq))
    /\ gs.pc # "idle" => (last.op = "get_scorer" /\ last.outcome = "started")
    /\ (last.op = "cluster" /\ last.method = "lexstat") =>
          /\ last.ndist > 0 => (cscorer # None /\ last.used = cscorer)
          /\ cscorer = None =>
                /\ last.ndist = 0
                /\ last.outcome = "noscorer"
                /\ cols["lexstatid"] = None

\* a lexstat clustering has computed distances with the installed scorer
LexstatClustered ==
    /\ last.op = "cluster" /\ last.method = "lexstat" /\ last.outcome = "ok"
    /\ last.ndist > 0
    /\ cols["lexstatid"] # None

\* C7: a step that ends a call with an error or an interrupt (an aborted
\* get_scorer, a failing cluster, align_pairs or get_random_distances)
\* leaves the installed scorer as it is.
ErrorsKeepScorer ==
    [][("outcome" \in DOMAIN last' /\
        last'.outcome \in {"aborted", "ValueError", "KeyError", "AttributeError",
                           "ZeroDivisionError", "UnboundLocalError"})
          => cscorer' = cscorer]_vars

\* a forced get_scorer call over an installed scorer has been aborted
ForcedRunAborted ==
    /\ cscorer # None
    /\ last.op = "get_scorer" /\ last.outcome = "aborted" /\ last.kw.force

(***************************************************************************)
(* Properties of the construction and of get_subset, stated for            *)
(* SpecIndex.                                                              *)
(***************************************************************************)
\* C8: for taxa A before B, pairs[A,B] lists exactly once every pair (word
\* of A, word of B) of words that share a concept and are both not flagged
\* as duplicates; pairs[A,A] lists exactly once (i,i) for every unflagged
\* word i of A; no flagged word occurs in the index.
PairIndexContents ==
    \A tp \in TaxonPairs :
        /\ Cardinality(Range(pairs[tp])) = Len(pairs[tp])
        /\ Range(pairs[tp]) =
              IF tp[1] < tp[2]
              THEN {p \in IdsOf(data) \X IdsOf(data) :
                        /\ TaxonOf(data, p[1]) = tp[1] /\ TaxonOf(data, p[2]) = tp[2]
                        /\ ConceptOf(data, p[1]) = ConceptOf(data, p[2])
                        /\ duplicates[p[1]] = 0 /\ duplicates[p[2]] = 0}
              ELSE {<<i, i>> : i \in {j \in IdsOf(data) :
                                        TaxonOf(data, j) = tp[1] /\ duplicates[j] = 0}}
        /\ \A p \in Range(pairs[tp]) : duplicates[p[1]] # 1 /\ duplicates[p[2]] # 1

\* a flagged word of the later taxon shares its concept with an unflagged
\* word of the earlier taxon, and the index of the two taxa is not empty
FlaggedWordSharesConcept ==
    \E i, j \in IdsOf(data) :
        /\ TaxonOf(data, i) < TaxonOf(data, j)
        /\ ConceptOf(data, i) = ConceptOf(data, j)
        /\ duplicates[i] = 0 /\ duplicates[j] = 1
        /\ pairs[<<TaxonOf(data, i), TaxonOf(data, j)>>] # <<>>

\* C9: after get_subset(U, ref), subsets[A,B] is a sub-list of pairs[A,B] in
\* the same order, made of exactly the pairs whose ref entry (the entry of
\* the pair's first word) lies in U; it equals pairs[A,B] when U holds every
\* ref value of the data; pairs is the index built at construction.
SubsetIsFilteredPairs ==
    subsets # None =>
        /\ pairs = BuildPairs(data, duplicates)
        /\ \A tp \in TaxonPairs :
              /\ IsSubSeq(Val(subsets)[tp], pairs[tp])
              /\ Range(Val(subsets)[tp]) =
                    {p \in Range(pairs[tp]) : Entry(data, p[1], last.ref) \in last.sublist}
              /\ (\A p \in Range(pairs[tp]) :
                      Entry(data, p[1], last.ref) = Entry(data, p[2], last.ref))
                    => \A p \in Range(pairs[tp]) :
                          p \in Range(Val(subsets)[tp])
                              <=> Entry(data, p[2], last.ref) \in last.sublist
              /\ {Entry(data, i, last.ref) : i \in IdsOf(data)} \subseteq last.sublist
                    => Val(subsets)[tp] = pairs[tp]

\* a subset by form that keeps one pair of a language pair and drops
\* another, and keeps a pair whose second word has a form outside the list
SubsetKeepsAndDrops ==
    /\ subsets # None
    /\ last.ref = "ipa"
    /\ \E tp \in TaxonPairs :
          /\ Val(subsets)[tp] # <<>>
          /\ Val(subsets)[tp] # pairs[tp]
    /\ \E tp \in TaxonPairs : \E p \in Range(Val(subsets)[tp]) :
          Entry(data, p[2], "ipa") \notin last.sublist

\* C10: the base scorer is symmetric, and the score of two symbols is the
\* model's score of their sound classes, whatever their language ids and
\* contexts; on the diagonal it is the model's self-substitution score.
\* The sound class of a symbol is the class of the segment it was built
\* from; the class of a gap symbol is X.
BaseScorerByClass ==
    LET occ == UNION {{<<Numbers(data, i)[k], FormTable[IpaOf(data, i)][k].cls>> :
                         k \in 1..Len(FormTable[IpaOf(data, i)])} : i \in IdsOf(data)}
                 \cup {<<GapSymbol(t), "X">> : t \in Taxa}
    IN /\ Range(bscorer.chars) = {o[1] : o \in occ}
       /\ \A x, y \in occ :
             /\ Lookup(bscorer, x[1], y[1]) = Lookup(bscorer, y[1], x[1])
             /\ Lookup(bscorer, x[1], y[1]) = Model(x[2], y[2])
             /\ Lookup(bscorer, x[1], x[1]) = Model(x[2], x[2])

\* language ids of two digits, and two different symbols of one sound class
\* that differ in language and in context
TwoDigitIdsSameClass ==
    /\ data.langbase = 9
    /\ \E a, b \in Range(chars) :
          /\ Len(a) = 6 /\ Len(b) = 6
          /\ a[4] = b[4]
          /\ <<a[1], a[2]>> # <<b[1], b[2]>>
          /\ a[6] # b[6]

(***************************************************************************)
(* Properties of the synthesis, of the parameters and of the clustering,   *)
(* stated for Spec.                                                         *)
(***************************************************************************)
\* the cells of the language pair tp: a symbol of the first language or its
\* gap symbol, and a symbol of the second language or its gap symbol
PairCells(tp) ==
    Range(CrossSeq(FreqSeq(data, tp[1]) \o <<GapSymbol(tp[1])>>,
                   FreqSeq(data, tp[2]) \o <<GapSymbol(tp[2])>>))

\* C11: when the attested distribution of a pair of different languages is
\* empty (no pair was aligned or none passed the threshold), the installed
\* scorer equals the base scorer on the cells of that language pair.
UnattestedPairKeepsBaseScores ==
    cscorer # None =>
        \A tp \in TaxonPairs :
            (tp[1] < tp[2] /\ DOMAIN Val(installed).corrdist[tp] = {}) =>
                \A c \in PairCells(tp) :
                    (c[1] \in Range(chars) /\ c[2] \in Range(chars)) =>
                        Lookup(Val(cscorer), c[1], c[2]) = Lookup(bscorer, c[1], c[2])

\* an empty mode list or a ratio that sums to zero
InvalidKw(kw) == Len(kw.modes) = 0 \/ kw.ratio[1] + kw.ratio[2] = 0

\* C12: a get_scorer call with an empty mode list or a ratio summing to zero
\* always enters the computation (where it fails) and never installs a
\* scorer, whatever the state it is made in; a cluster call with an unknown
\* method raises ValueError and leaves the cognate-id columns as they are.
InvalidParameterIsFatal ==
    [][/\ \A kw \in Kws : (GetScorer(kw) /\ InvalidKw(kw)) => last'.outcome = "started"
       /\ (gs.pc # "idle" /\ InvalidKw(gs.kw)) =>
             /\ cscorer' = cscorer
             /\ last'.outcome \in {"started", "ZeroDivisionError", "aborted"}
       /\ (last'.op = "cluster" /\ last' # last /\ last'.method \notin Methods) =>
             (last'.outcome = "ValueError" /\ cols' = cols)]_vars

\* C13: a number of runs above the number of candidate index pairs never
\* makes the sampling fail and always yields the whole population: for the
\* Markov approach (rands x rands), for the shuffle approach and for
\* get_random_distances (|pairs| x |pairs| each).
RunsAbovePopulationEnumerates ==
    /\ (last.op = "get_scorer" /\ last.kw.runs > last.kw.rands * last.kw.rands)
          => last.outcome # "ValueError"
    /\ \A kw \in Kws : \A tp \in TaxonPairs : \A seed \in Seeds :
          (RandMethod(kw) = "shuffle" /\ kw.runs > Len(Population(Len(pairs[tp]))))
              => ShuffleSample(kw, tp, seed) = Population(Len(pairs[tp]))
    /\ (last.op = "get_random_distances" /\ last.outcome = "ok") =>
          \A tp \in DOMAIN last.samples :
              last.runs > Len(Population(Len(pairs[tp])))
                  => Range(last.samples[tp]) = Range(Population(Len(pairs[tp])))

\* the cluster methods the documentation names
DocumentedClusterMethods == {"upgma", "single", "complete", "mcl", "link-clustering"}

\* C14: a cluster call with one of the documented cluster methods binds a
\* flat-clustering procedure and, unless a scorer is missing or a distance
\* lookup fails, clusters every concept with it.
ClusterMethodSelectsProcedure ==
    (/\ last.op = "cluster"
     /\ last.method \in Methods
     /\ last.cm \in DocumentedClusterMethods
     /\ last.gt = ""
     /\ last.outcome \notin {"noscorer", "KeyError"})
        => /\ last.fclust # None
           /\ last.outcome = "ok"
           /\ Len(last.cuts) = Len(Rows(data))

\* C15: a cluster call with guess_threshold=True and gt_mode='nullditem'
\* clusters every concept at the threshold of the call and completes with
\* an id for every word.
NullditemFallsThroughToThreshold ==
    (/\ last.op = "cluster"
     /\ last.method \in Methods
     /\ last.gt = "nullditem"
     /\ last.fclust # None
     /\ last.outcome \notin {"noscorer", "KeyError"})
        => /\ last.outcome = "ok"
           /\ last.cuts = [n \in 1..Len(Rows(data)) |-> last.threshold]
           /\ cols[last.col] # None
           /\ DOMAIN Val(cols[last.col]) = IdsOf(data)

\* the local cluster the flat clusterer gave word i under the labeling lab
LocalCluster(lab, i) ==
    LET indices == GetListRow(data, ConceptOf(data, i))
    IN FlatCluster(lab[ConceptOf(data, i)], Len(indices))[CHOOSE n \in 1..Len(indices) : indices[n] = i]

FalseThresholdIsReplaced ==
    (last.op = "cluster" /\ last.threshold = PyFalse /\ last.outcome = "ok") =>
        /\ Len(last.cuts) = Len(Rows(data))
        /\ \A n \in 1..Len(last.cuts) : last.cuts[n] # PyFalse

\* C19: in every state the segment index and the base scorer are those
\* built at construction: chars, its symbol-to-row mapping and every base
\* score keep their values through get_scorer, cluster, align_pairs,
\* get_distances and get_random_distances.
BaseScorerAndIndexImmutable ==
    /\ chars = BuildChars(data)
    /\ bscorer.chars = chars
    /\ \A a \in Range(chars) : chars[Chars2Int(bscorer, a)] = a
    /\ bscorer.matrix = BuildBMatrix(BuildChars(data))

\* a scorer that differs from the base scorer has been installed and an
\* operation that reads the scorers has run after it
SynthesizedThenUsed ==
    /\ cscorer # None
    /\ Val(cscorer).matrix # bscorer.matrix
    /\ last.op \in {"cluster", "align_pairs", "get_distances"}
    /\ last.outcome = "ok"

\* the branch of the synthesis for the cell (a, b) of the language pair tp:
\* which of the attested and the expected count is present (non-zero), an
\* attested count <= 1 of two different languages counting as absent
BranchOf(cd, rd, tp, a, b) ==
    LET hasAtt == /\ <<a, b>> \in DOMAIN cd[tp]
                  /\ cd[tp][<<a, b>>].n # 0
                  /\ ~(tp[1] # tp[2] /\ cd[tp][<<a, b>>].n <= cd[tp][<<a, b>>].d)
        hasExp == <<a, b>> \in DOMAIN rd[tp] /\ rd[tp][<<a, b>>].n # 0
    IN IF hasAtt /\ hasExp THEN "both"
       ELSE IF hasAtt THEN "att"
       ELSE IF hasExp THEN "exp"
       ELSE "none"

\* the blended score of the cell, from the table of the four branches
BlendedScore(kw, cd, rd, tp, a, b) ==
    LET br == BranchOf(cd, rd, tp, a, b)
        la == Log2(cd[tp][<<a, b>>].n) - Log2(cd[tp][<<a, b>>].d)
        le == Log2(rd[tp][<<a, b>>].n) - Log2(rd[tp][<<a, b>>].d)
        s == IF br = "both" THEN 2 * la - 2 * le
             ELSE IF br = "att" THEN 2 * la + 16610
             ELSE IF br = "exp" THEN 0 - 5000
             ELSE 0 - 90000
        sim == IF a = GapSymbol(tp[1]) \/ b = GapSymbol(tp[2])
               THEN (1000 * Sum([m \in 1..Len(kw.modes) |-> kw.modes[m][2]], Len(kw.modes)))
                        \div Len(kw.modes)
               ELSE Lookup(bscorer, a, b)
    IN (kw.ratio[1] * s + kw.ratio[2] * sim) \div (kw.ratio[1] + kw.ratio[2])

\* the alphabet of a language in the order of the synthesis, the gap last
Alphabet(t) == FreqSeq(data, t) \o <<GapSymbol(t)>>

\* the cells of one language pair hold the blended scores
PairFollowsBranchTable(kw, cd, rd, tp, alphaA, alphaB) ==
    \A i \in 1..Len(alphaA) : \A j \in 1..Len(alphaB) :
        (tp[1] # tp[2] \/ i >= j) =>
            LET a == alphaA[i]
                b == alphaB[j]
                v == BlendedScore(kw, cd, rd, tp, a, b)
            IN /\ Lookup(Val(cscorer), a, b) =
                     IF PyAt(a, 4) \in {"X", "Y", "Z", "T", "_"} /\ PyAt(b, 4) \in {"X", "Y", "Z", "T", "_"}
                     THEN (kw.vscale * v) \div 1000 ELSE v
               /\ Lookup(Val(cscorer), b, a) = Lookup(Val(cscorer), a, b)

\* C20: every cell of the installed scorer holds the blended score of the
\* branch table (scaled by vscale when both symbols are vowel or tone
\* positions): for two different languages the score of (a, b), for one
\* language the score of the later of the two visits (a, b) and (b, a).
SynthesisFollowsBranchTable ==
    cscorer # None =>
        \A tp \in TaxonPairs :
            PairFollowsBranchTable(Val(installed).kw, Val(installed).corrdist,
                                   Val(installed).randist, tp,
                                   Alphabet(tp[1]), Alphabet(tp[2]))

\* an installed scorer whose synthesis took each of the four branches, saw
\* an attested count <= 1 between two languages and one within a language,
\* and blended a gap cell
AllBranchesTaken ==
    /\ cscorer # None
    /\ \A br \in {"both", "att", "exp", "none"} :
          \E tp \in TaxonPairs : \E c \in PairCells(tp) :
              BranchOf(Val(installed).corrdist, Val(installed).randist, tp, c[1], c[2]) = br
    /\ \E tp \in TaxonPairs : \E c \in PairCells(tp) :
          /\ tp[1] # tp[2]
          /\ c \in DOMAIN Val(installed).corrdist[tp]
          /\ Val(installed).corrdist[tp][c].n <= Val(installed).corrdist[tp][c].d
    /\ \E tp \in TaxonPairs : \E c \in PairCells(tp) :
          /\ tp[1] = tp[2]
          /\ c \in DOMAIN Val(installed).corrdist[tp]
          /\ Val(installed).corrdist[tp][c].n <= Val(installed).corrdist[tp][c].d
          /\ BranchOf(Val(installed).corrdist, Val(installed).randist, tp, c[1], c[2])
                \in {"both", "att"}
    /\ \E tp \in TaxonPairs : \E c \in PairCells(tp) :
          /\ (c[1] = GapSymbol(tp[1]) \/ c[2] = GapSymbol(tp[2]))
          /\ BranchOf(Val(installed).corrdist, Val(installed).randist, tp, c[1], c[2]) # "none"

\* the prosodic context of a symbol '{langid}.{class}.{context}'
ContextOf(sym) == sym[Len(sym)]

\* the contexts of the default transform for vowels, tones and word breaks
ScaledContexts == {"V", "T", "_"}

\* the cells of one language pair hold vscale times the blended score when
\* both contexts are vowel, tone or break contexts, else the blended score
PairScaledByContext(kw, cd, rd, tp, alphaA, alphaB) ==
    \A i \in 1..Len(alphaA) : \A j \in 1..Len(alphaB) :
        (tp[1] # tp[2] \/ i >= j) =>
            LET a == alphaA[i]
                b == alphaB[j]
                v == BlendedScore(kw, cd, rd, tp, a, b)
            IN Lookup(Val(cscorer), a, b) =
                  IF ContextOf(a) \in ScaledContexts /\ ContextOf(b) \in ScaledContexts
                  THEN (kw.vscale * v) \div 1000 ELSE v

\* C21: in the installed scorer the score of a pair of symbols is vscale
\* times the blended score whenever both symbols are in a vowel, tone or
\* break context (V, T, _ of the default transform) and the blended score
\* otherwise, for every language id.
VowelScaleFollowsContext ==
    cscorer # None =>
        \A tp \in TaxonPairs :
            PairScaledByContext(Val(installed).kw, Val(installed).corrdist,
                                Val(installed).randist, tp,
                                Alphabet(tp[1]), Alphabet(tp[2]))

\* C24: a completed cluster call has clustered the matrix of every concept
\* exactly once: with gt_mode 'average' at the mean over all concepts of
\* the best threshold of the concept's matrix, with gt_mode 'item' at the
\* best threshold of the concept's own matrix, and without guess_threshold
\* at the threshold of the call.
ThresholdSelectionPerMode ==
    (last.op = "cluster" /\ last.outcome = "ok") =>
        /\ last.concepts = Rows(data)
        /\ Len(last.cuts) = Len(Rows(data))
        /\ \A n \in 1..Len(last.cuts) :
              last.cuts[n] =
                 CASE last.gt = "average" ->
                        Sum([m \in 1..Len(Rows(data)) |-> BestThresholdOf(Rows(data)[m])],
                            Len(Rows(data))) \div Len(Rows(data))
                   [] last.gt = "item" -> BestThresholdOf(Rows(data)[n])
                   [] OTHER -> last.threshold

\* a completed call with gt_mode 'average' on a word list whose concepts
\* have different best thresholds, none of them the threshold of the call
AverageOverDifferingConcepts ==
    /\ last.op = "cluster" /\ last.outcome = "ok"
    /\ last.gt = "average"
    /\ Len(last.cuts) > 1
    /\ \E c1, c2 \in Range(Rows(data)) : BestThresholdOf(c1) # BestThresholdOf(c2)
    /\ \A n \in 1..Len(last.cuts) :
          /\ last.cuts[n] # last.threshold
          /\ last.cuts[n] # BestThresholdOf(Rows(data)[n])
    /\ DOMAIN Val(cols[last.col]) = IdsOf(data)

\* C25: whenever no get_scorer call is running, a recorded params['cscorer']
\* belongs to an installed scorer that was synthesized under exactly these
\* parameters; and a get_scorer call is skipped only while a scorer exists.
ParamsRecordMatchesScorer ==
    /\ (gs.pc = "idle" /\ HasParams(params) /\ Val(params).cscorer # None) =>
          /\ cscorer # None
          /\ Val(params).cscorer = Some(ScorerParams(Val(installed).kw))
    /\ (last.op = "get_scorer" /\ last.outcome = "skipped") => cscorer # None

\* C27: for every pair of words a lexstat clustering computes a distance
\* for, the scorer, the gap-open value and the gap weights of the two words
\* are those align_pairs uses for the same pair: each word's weights are
\* the scores of its symbols against the gap symbol of its own language.
ClusterAlignsAsAlignPairs ==
    (last.op = "cluster" /\ last.method = "lexstat" /\ last.outcome = "ok") =>
        \A p \in DOMAIN last.args : last.args[p] = AlignPairArgs(p[1], p[2])

\* C28: a cluster call with an unknown method leaves the parameter record,
\* the stamp and every cognate-id column as they were before the call.
RejectedClusterChangesNothing ==
    [][\A call \in ClusterCalls :
          (/\ call.method \notin Methods
           /\ \E lab \in Labelings : \E ovr \in BOOLEAN : Cluster(call, lab, ovr))
             => (params' = params /\ stamp' = stamp /\ cols' = cols)]_vars

(***************************************************************************)
(* Properties of get_distances, stated for SpecDistances.                  *)
(***************************************************************************)
\* C17: get_distances (aggregate) yields for every pair of languages A
\* before B the arithmetic mean, over the pairs of pairs[A,B], of the
\* pairwise distance, a failing alignment counting as 1.0; it yields a
\* value for every language pair, also when pairs[A,B] is empty.
AggregateIsMeanForEveryPair ==
    last.op = "get_distances" =>
        /\ last.outcome = "ok"
        /\ DOMAIN last.D = {tp \in TaxonPairs : tp[1] < tp[2]}
        /\ \A tp \in DOMAIN last.D :
              last.D[tp].n * Len(pairs[tp]) =
                  last.D[tp].d * Sum([n \in 1..Len(pairs[tp]) |->
                                         IF PairAlignFails(last.method, pairs[tp][n]) THEN 1000
                                         ELSE PairDistance(last.method, pairs[tp][n])],
                                     Len(pairs[tp]))

(***************************************************************************)
(* Properties of the sampling loop, stated for SpecSampling.               *)
(***************************************************************************)
\* C22: the sampling loop of a language ends with rands strings, whatever
\* the generator returns, because a repeated string is refused only until
\* limit duplicates have been drawn: from then on a pass of the loop whose
\* string is already in the sample appends it and counts it.
RepeatsAcceptedAfterLimit ==
    [][(/\ gs.pc = "sampling"
        /\ last'.op = "get_string"
        /\ last'.repeat
        /\ gs.k >= gs.kw.limit)
          => (gs'.j = gs.j + 1 /\ gs'.words = Append(gs.words, last'.s))]_vars

(***************************************************************************)
(* Properties of _get_corrdist, stated for SpecCorrdist.                   *)
(***************************************************************************)
\* the pairs of the language pair whose distance is below the threshold
PassedPairs(kw, tp) ==
    {k \in 1..Len(pairs[tp]) :
        AlignDist(Numbers(data, pairs[tp][k][1]), Numbers(data, pairs[tp][k][2]), "bscorer")
            < kw.preprocessing_threshold}

\* the alignment of the k-th pair of the language pair in mode m
PairAlignment(kw, tp, m, k) ==
    AlignSeqs(Numbers(data, pairs[tp][k][1]), Numbers(data, pairs[tp][k][2]), kw.modes[m][1])

\* the number of aligned positions of mode m that show the symbol pair y,
\* a gap standing for the gap symbol of the language on its side
ModeCount(kw, tp, m, y) ==
    Cardinality(UNION {
        {<<k, p>> : p \in {q \in 1..Len(PairAlignment(kw, tp, m, k)) :
            LET x == PairAlignment(kw, tp, m, k)[q]
            IN /\ (x[1] = y[1] \/ (x[1] = Gap /\ y[1] = GapSymbol(tp[1])))
               /\ (x[2] = y[2] \/ (x[2] = Gap /\ y[2] = GapSymbol(tp[2])))}} :
        k \in PassedPairs(kw, tp)})

\* the number of aligned positions of mode m
ModePositions(kw, tp, m) ==
    SumOver([k \in PassedPairs(kw, tp) |-> Len(PairAlignment(kw, tp, m, k))],
            PassedPairs(kw, tp))

\* C23: for every language pair and every symbol pair the attested count is
\* the sum over the modes of the mode's count divided by the number of
\* modes, a gap being keyed by the gap symbol of the language on its side;
\* the counts of a language pair add up to the mean over the modes of the
\* number of aligned positions of the pairs below the threshold.
AttestedIsMeanOverModes ==
    last.op = "_get_corrdist" =>
        \A tp \in TaxonPairs :
            LET kw == last.kw
                nm == Len(kw.modes)
                cd == last.corrdist[tp]
            IN /\ \A y \in DOMAIN cd :
                     /\ y[1] # Gap /\ y[2] # Gap
                     /\ cd[y].n * nm =
                           cd[y].d * Sum([m \in 1..nm |-> ModeCount(kw, tp, m, y)], nm)
               /\ SumOver([y \in DOMAIN cd |-> (cd[y].n * nm) \div cd[y].d], DOMAIN cd) =
                     Sum([m \in 1..nm |-> ModePositions(kw, tp, m)], nm)

\* a call with two modes on a language pair that has a gap on either side,
\* a count that only one mode contributes to and a pair above the threshold
GapsOnBothSidesAveraged ==
    /\ last.op = "_get_corrdist"
    /\ Len(last.kw.modes) = 2
    /\ \E tp \in TaxonPairs :
          /\ tp[1] # tp[2]
          /\ \E y \in DOMAIN last.corrdist[tp] : y[1] = GapSymbol(tp[1])
          /\ \E y \in DOMAIN last.corrdist[tp] :
                y[2] = GapSymbol(tp[2]) /\ last.corrdist[tp][y].d = 2
          /\ PassedPairs(last.kw, tp) # {}
          /\ Cardinality(PassedPairs(last.kw, tp)) < Len(pairs[tp])

(***************************************************************************)
(* Properties of the parameter record, stated for SpecSignature.           *)
(***************************************************************************)
\* the options of a get_scorer call that enter the synthesis: all but force
ScorerOptions(kw) ==
    <<kw.ratio, kw.vscale, kw.runs, kw.preprocessing_threshold, kw.modes, kw.factor,
      kw.restricted_chars, kw.method, kw.preprocessing, kw.cluster_method, kw.gop,
      kw.preprocessing_method, kw.rands, kw.limit, kw.subset>>

\* C26: the parameter record and the stamp line a get_scorer call has just
\* written are those of its configuration only: no configuration that
\* differs from it in an option of the synthesis (ratio, vscale, runs,
\* threshold, modes, factor, restricted_chars, method, preprocessing
\* settings, rands, limit, subset) yields the same record or the same line.
SignatureDistinguishesConfigurations ==
    (last.op = "get_scorer" /\ last.outcome = "started") =>
        \A kw \in SignatureKws :
            ScorerOptions(kw) # ScorerOptions(last.kw) =>
                /\ Some(ScorerParams(kw)) # Val(params).cscorer
                /\ ParString(ScorerParams(kw)) # stamp[Len(stamp)]

(***************************************************************************)
(* Properties of the construction, stated for SpecConstruct.               *)
(***************************************************************************)
\* C29: every constructed object has its context transform, its segment
\* index, its base scorer, its duplicates and its pair index, whatever
\* columns the input carries and whatever the answer to the input check;
\* no get_scorer call with the Markov method and no cluster call fails on
\* it for a missing attribute or column.
ConstructionIsComplete ==
    /\ transform # None
    /\ chars # None
    /\ bscorer # None
    /\ duplicates # None
    /\ pairs # None
    /\ (last.op = "get_scorer" /\ RandMethod(last.kw) = "markov")
          => last.outcome \notin {"AttributeError", "error"}
    /\ last.op = "cluster" => last.outcome # "error"

(***************************************************************************)
(* Properties of word_pair_probability, stated for SpecWordPair.           *)
(***************************************************************************)
RECURSIVE PairProbability(_, _, _, _, _, _)
\* the probability of the rests of the two words behind the cursors s1 and
\* s2, computed without a table
PairProbability(u, v, word1, word2, s1, s2) ==
    IF s1 = Len(word1) - 1 /\ s2 = Len(word2) - 1 THEN Hypothesis(Hash, Hash)
    ELSE LET branches == CrossSeq(get_prefixes(u, v, word1, s1), get_prefixes(u, v, word2, s2))
         IN Sum([n \in 1..Len(branches) |->
                    IF Len(branches[n][1]) = 0 /\ Len(branches[n][2]) = 0 THEN 0
                    ELSE Hypothesis(Join(branches[n][1]), Join(branches[n][2]))
                            * PairProbability(u, v, word1, word2,
                                              s1 + Len(branches[n][1]),
                                              s2 + Len(branches[n][2]))],
                Len(branches))

\* the cursors stay on the words, every call stands behind its caller, no
\* prefix holds the final '#', the loops are not entered at the end of both
\* words, and the table and the result hold the values computed without it
CallsAdvanceAndTableIsExact ==
    /\ \A k \in 1..Len(gs.stack) :
          /\ gs.stack[k].s1 \in 0..(Len(data.word1) - 1)
          /\ gs.stack[k].s2 \in 0..(Len(data.word2) - 1)
          /\ \A n \in 1..Len(gs.stack[k].todo) :
                /\ Hash \notin Range(gs.stack[k].todo[n][1])
                /\ Hash \notin Range(gs.stack[k].todo[n][2])
          /\ gs.stack[k].st = "loop" =>
                ~(gs.stack[k].s1 = Len(data.word1) - 1 /\ gs.stack[k].s2 = Len(data.word2) - 1)
          /\ k > 1 =>
                /\ gs.stack[k].s1 >= gs.stack[k - 1].s1
                /\ gs.stack[k].s2 >= gs.stack[k - 1].s2
                /\ gs.stack[k].s1 + gs.stack[k].s2 > gs.stack[k - 1].s1 + gs.stack[k - 1].s2
    /\ \A s1 \in 0..(Len(data.word1) - 1) : \A s2 \in 0..(Len(data.word2) - 1) :
          MemoKey(data.word1, data.word2, s1, s2) \in DOMAIN gs.memo =>
              gs.memo[MemoKey(data.word1, data.word2, s1, s2)] =
                  PairProbability(data.u, data.v, data.word1, data.word2, s1, s2)
    /\ gs.pc = "done" =>
          last.result = PairProbability(data.u, data.v, data.word1, data.word2, 0, 0)

\* C30: word_pair_probability returns for every pair of '#'-terminated
\* words and all bounds 0 <= u <= v: two empty prefixes are skipped, every
\* recursive call advances a cursor, no prefix takes the final '#', the
\* recursion ends where both cursors stand on the final symbol, and the
\* values of the table equal those computed without it.
WordPairProbabilityTerminates == [](CallsAdvanceAndTableIsExact) /\ <>(gs.pc = "done")

\* a call with u = 0 and words of several tokens has returned a positive
\* value after reading a stored value from the table
ReturnedWithTableHit ==
    /\ gs.pc = "done"
    /\ gs.hits > 0
    /\ data.u = 0 /\ data.v > 0
    /\ Len(data.word1) > 2 /\ Len(data.word2) > 2
    /\ data.word1 # data.word2
    /\ last.result > Hypothesis(Hash, Hash)

====
